---- MODULE Spec2Model ----
(***************************************************************************)
(* A model of the O2 network layer (src/src/network.cpp): the socket       *)
(* registry o2n_fds / o2n_fds_info, the Fds_info connection objects, the   *)
(* poll loop o2n_recv with its deferred deletion sweep, and the framed     *)
(* TCP send and receive paths.  Sockets, the peer and the owner callbacks  *)
(* are the environment: every result a system call or a callback can give  *)
(* is a nondeterministic choice.                                           *)
(***************************************************************************)
EXTENDS Integers, Sequences, FiniteSets, TLC

VARIABLES
    o2n_fds,                 \* Vec<struct pollfd>: [fd, events, revents, own]
    o2n_fds_info,            \* Vec<Fds_info *>: object ids
    heap,                    \* the Fds_info objects ever constructed, by id
    o2n_socket_delete_flag,  \* static bool
    sock,                    \* the kernel's side of every socket, by fd
    crashed,                 \* a failed assert or an out-of-bounds Vec access
    obs,                     \* observer: per object, what its owner was told
    pc,                      \* where o2n_recv is: idle, sweep, poll, dispatch
    tick_i,                  \* the loop variable i of o2n_recv / of the sweep
    tick_len,                \* int len of o2n_recv
    last,                    \* observer: the operation that led here
    policy,                  \* what the owners' callbacks of this run may do
    o2sm_incoming,           \* static O2queue: its head, 0 for NULL
    sm_msgs,                 \* the O2message objects of the shared heap
    sm_thread,               \* the shared memory thread, in o2sm_message_send
    bridge,                  \* the O2 thread, in O2sm_protocol::bridge_poll
    o2_sent,                 \* observer: what o2_message_send was handed
    outgoing,                \* O2sm_info::outgoing: its head, 0 for NULL
    out_mem,                 \* the O2message objects sent to the thread
    schedule_head,           \* thread_local O2message_ptr, 0 for NULL
    schedule_tail,           \* thread_local O2message_ptr
    sm_poll,                 \* the shared memory thread, in poll_outgoing
    o2sm_dispatched          \* observer: what o2sm_dispatch / O2_FREE was handed

\* the state of the shared memory bridge (src/src/sharedmem.cpp)
\* the messages from the O2 process to the shared memory thread
outvars == <<outgoing, out_mem, schedule_head, schedule_tail, sm_poll,
             o2sm_dispatched>>

shmvars == <<o2sm_incoming, sm_msgs, sm_thread, bridge, o2_sent, outvars>>

\* the state of the network layer (src/src/network.cpp)
netvars == <<o2n_fds, o2n_fds_info, heap, o2n_socket_delete_flag, sock,
             crashed, obs, pc, tick_i, tick_len, last, policy>>

vars == <<netvars, shmvars>>

(***************************************************************************)
(* Bounds of the model.                                                    *)
(***************************************************************************)
\* messages handed to enqueue / send_tcp in one run
MaxSends == 2
\* bytes a socket buffer holds before a write would block
WireCap == 6
\* Fds_info objects constructed in one run
MaxObjs == 2
\* payload length of the single message of the k-byte transport runs
MaxLen == 3
\* largest k of the k-byte transport runs
MaxK == 6
\* connections waiting in the accept queue of a listener of the server runs
MaxBacklog == 2
\* bytes by which the longest message of the raw runs exceeds RawMax
MaxOver == 1
\* messages the shared memory thread sends in one run
MaxMsgs == 3

(***************************************************************************)
(* Program constants.                                                      *)
(***************************************************************************)
INVALID_SOCKET == -1
LengthBytes == 4
\* the size of the buffer a raw read is given
RawMax == 512

NET_UDP_SERVER == "NET_UDP_SERVER"
NET_TCP_SERVER == "NET_TCP_SERVER"
NET_TCP_CONNECTING == "NET_TCP_CONNECTING"
NET_TCP_CLIENT == "NET_TCP_CLIENT"
NET_TCP_CONNECTION == "NET_TCP_CONNECTION"
NET_INFO_CLOSED == "NET_INFO_CLOSED"

O2_SUCCESS == "O2_SUCCESS"
O2_FAIL == "O2_FAIL"
O2_BLOCKED == "O2_BLOCKED"
O2_TCP_HUP == "O2_TCP_HUP"
O2_SOCKET_ERROR == "O2_SOCKET_ERROR"

\* the shared memory bridge before any thread has used it
ShmQuiet ==
    /\ o2sm_incoming = 0
    /\ sm_msgs = <<>>
    /\ sm_thread = [pc |-> "idle", msg |-> 0, old |-> 0]
    /\ bridge = [pc |-> "idle", msgs |-> 0, rslt |-> O2_SUCCESS,
                 ret |-> O2_SUCCESS, calls |-> 0]
    /\ o2_sent = <<>>
    /\ outgoing = 0
    /\ out_mem = <<>>
    /\ schedule_head = 0
    /\ schedule_tail = 0
    /\ sm_poll = [pc |-> "idle", msgs |-> 0, prev |-> 0, now |-> 0]
    /\ o2sm_dispatched = <<>>

POLLIN == "POLLIN"
POLLOUT == "POLLOUT"
POLLERR == "POLLERR"
POLLHUP == "POLLHUP"

\* errno after a system call that returned -1
EAGAIN == "EAGAIN"
EINTR == "EINTR"
EPIPE == "EPIPE"

TERMINATING_SOCKET_ERROR(errno) ==
    errno # EAGAIN /\ errno # EINTR

(***************************************************************************)
(* Bytes and byte order.  An int32 in memory is four bytes, least          *)
(* significant first (the build's host order); htonl swaps them.           *)
(***************************************************************************)
Min(a, b) == IF a < b THEN a ELSE b

Pow256(k) ==
    CASE k = 0 -> 1 [] k = 1 -> 256 [] k = 2 -> 65536 [] k = 3 -> 16777216

\* byte k (0..3) of the int32 x as it lies in memory
MemByte(x, k) == (x \div Pow256(k)) % 256

\* the int32 x after byte b is stored at memory offset k
StoreByte(x, k, b) == x - MemByte(x, k) * Pow256(k) + b * Pow256(k)

htonl(x) ==
    MemByte(x, 0) * Pow256(3) + MemByte(x, 1) * Pow256(2)
        + MemByte(x, 2) * Pow256(1) + MemByte(x, 3)

\* o2n_message: length, then payload contiguous in memory
o2n_message_new(size) == [length |-> size, payload |-> <<>>]

Msg(bytes) == [length |-> Len(bytes), payload |-> bytes]

\* faulty variant: the length prefix is written in raw mode too
WireBytesFramed(msg, raw_flag) ==
    [k \in 1..LengthBytes |-> MemByte(htonl(msg.length), k - 1)] \o msg.payload

\* the bytes ::send is handed for msg from offset `sent`: in framed mode the
\* memory of msg->length (already byte-swapped) followed by the payload
WireBytes(msg, raw_flag) ==
    IF raw_flag THEN msg.payload
    ELSE [k \in 1..LengthBytes |-> MemByte(htonl(msg.length), k - 1)] \o msg.payload

(***************************************************************************)
(* The world an operation runs in: the program's globals and heap, the     *)
(* kernel's sockets, and the observer's log of what the operation did.     *)
(* Each C++ function is an operator from a world to the set of worlds it   *)
(* can return in (one per result of the system calls and callbacks).       *)
(***************************************************************************)
World ==
    [fds |-> o2n_fds, info |-> o2n_fds_info, heap |-> heap,
     flag |-> o2n_socket_delete_flag, sock |-> sock, crashed |-> crashed,
     obs |-> obs, log |-> <<>>, ret |-> O2_SUCCESS, waits |-> FALSE,
     branch |-> <<>>]

Commit(w) ==
    /\ o2n_fds' = w.fds
    /\ o2n_fds_info' = w.info
    /\ heap' = w.heap
    /\ o2n_socket_delete_flag' = w.flag
    /\ sock' = w.sock
    /\ crashed' = w.crashed
    /\ obs' = w.obs

\* run F in every world of S the program is still running in: not aborted,
\* and not waiting inside a system call
Bind(S, F(_)) == UNION {IF w.crashed \/ w.waits THEN {w} ELSE F(w) : w \in S}

Ret(w, r) == [w EXCEPT !.ret = r]
Note(w, e) == [w EXCEPT !.log = Append(@, e)]

\* a failed assert: the debug build aborts, the NDEBUG build goes on
assert(w, cond) ==
    IF cond THEN {w} ELSE {[w EXCEPT !.crashed = TRUE], w}

\* Vec<T>: operator[] outside the bounds is an abort (debug) or a wild access
Fault(w) == [w EXCEPT !.crashed = TRUE]
bounds_check(v, i) == i >= 0 /\ i < Len(v)
At(v, i) == v[i + 1]
pop_back(v) == SubSeq(v, 1, Len(v) - 1)
SetAt(v, i, x) == [v EXCEPT ![i + 1] = x]

\* O2_FREE(msg)
O2_FREE(w, msg) == Note(w, [e |-> "free", m |-> msg])

(***************************************************************************)
(* The kernel.  A socket: peer (fd of the other end when it is a socket    *)
(* of this model, else 0), rx (bytes received, not yet read), eof (the     *)
(* peer has closed), rst (the connection is reset), hup (poll reports      *)
(* POLLHUP), cstate (of a connect: none, pending, ok, refused), backlog    *)
(* (connections waiting in accept), seg (when > 0: a transport that takes  *)
(* at most seg bytes per write, never blocks, and keeps in tx every byte   *)
(* it took); for the observer, fed (messages a remote peer has sent).      *)
(***************************************************************************)
NewSock(cstate, seg) ==
    [peer |-> 0, rx |-> <<>>, tx |-> <<>>, eof |-> FALSE, rst |-> FALSE,
     hup |-> FALSE, cstate |-> cstate, backlog |-> 0, seg |-> seg, fed |-> 0]

Room(sk, fd) ==
    IF sk[fd].peer # 0 THEN WireCap - Len(sk[sk[fd].peer].rx) ELSE WireCap

\* shutdown(sock, SHUT_WR); closesocket(sock): the other end reads end of
\* file, and nothing of the closed socket is left in the kernel
KernelClose(sk, fd) ==
    LET p == sk[fd].peer
        sk1 == [sk EXCEPT ![fd] = NewSock("closed", 0)]
    IN  IF p = 0 THEN sk1
        ELSE [sk1 EXCEPT ![p].eof = TRUE, ![p].peer = 0]

\* the byte counts one ::send of n bytes on fd can accept: with MSG_DONTWAIT
\* any part of what fits; without, the call waits for room and returns with
\* all that fits
Accepts(sk, fd, n, dontwait) ==
    IF n = 0 THEN {0}
    ELSE IF sk[fd].seg > 0 THEN {Min(n, sk[fd].seg)}
    ELSE IF dontwait THEN 1..Min(n, Room(sk, fd))
    ELSE IF Room(sk, fd) = 0 THEN {}
    ELSE {Min(n, Room(sk, fd))}

\* ::send(fd, bytes, n, flags): the results it can give, each with the
\* kernel's state after it
SysSend(w, fd, bytes, dontwait) ==
    LET n == Len(bytes)
        fail(errno) == [sock |-> w.sock, err |-> -1, errno |-> errno]
        take(k) ==
            LET p == w.sock[fd].peer
                sk == IF w.sock[fd].seg = 0 THEN w.sock
                      ELSE [w.sock EXCEPT ![fd].tx = @ \o SubSeq(bytes, 1, k)]
            IN  [sock |-> IF p = 0 THEN sk
                          ELSE [sk EXCEPT ![p].rx = @ \o SubSeq(bytes, 1, k)],
                 err |-> k, errno |-> "0"]
    IN  IF fd = INVALID_SOCKET THEN {fail("EBADF")}
        ELSE IF w.sock[fd].rst THEN {fail(EPIPE)}
        ELSE (IF w.sock[fd].eof THEN {fail(EPIPE)} ELSE {})
             \cup (IF dontwait /\ w.sock[fd].seg = 0
                   THEN {fail(EINTR)}
                        \cup (IF n > 0 /\ Room(w.sock, fd) = 0
                              THEN {fail(EAGAIN)} ELSE {})
                   ELSE {})
             \cup {take(k) : k \in Accepts(w.sock, fd, n, dontwait)}

\* whether descriptor fd is in blocking mode: o2n_tcp_socket_new makes its
\* sockets non-blocking; a socket returned by accept() is never touched, so
\* it is non-blocking only where accept() hands on the listener's O_NONBLOCK
\* (BSD, macOS) and blocking where it does not (Linux)
Blocking(w, fd) ==
    /\ "blocking_accept" \in policy
    /\ fd \in 1..Len(w.obs)
    /\ w.obs[fd].how \in {"accept", "unowned"}

\* recvfrom on a blocking socket with nothing to read: the call does not
\* return; the program is inside it, with all it did before the call done
Waits(w, fd, n) ==
    IF /\ fd # INVALID_SOCKET /\ Blocking(w, fd) /\ n > 0
       /\ w.sock[fd].rx = <<>> /\ ~w.sock[fd].eof /\ ~w.sock[fd].rst
    THEN {[w EXCEPT !.waits = TRUE]}
    ELSE {}

\* recvfrom(fd, buf, n, 0, NULL, NULL): the results it can return with
SysRecv(w, fd, n) ==
    LET fail(errno) ==
            [sock |-> w.sock, n |-> -1, errno |-> errno, data |-> <<>>]
        rx == w.sock[fd].rx
        take(k) ==
            [sock |-> [w.sock EXCEPT ![fd].rx = SubSeq(rx, k + 1, Len(rx))],
             n |-> k, errno |-> "0", data |-> SubSeq(rx, 1, k)]
    IN  IF fd = INVALID_SOCKET THEN {fail("EBADF")}
        ELSE IF w.sock[fd].rst THEN {fail("ECONNRESET")}
        ELSE IF rx # <<>> /\ n > 0
             THEN {fail(EINTR)} \cup {take(k) : k \in 1..Min(n, Len(rx))}
        ELSE IF w.sock[fd].eof \/ n = 0 THEN {take(0)}
        ELSE IF Blocking(w, fd) THEN {}
        ELSE {fail(EAGAIN)}

(***************************************************************************)
(* Fds_info: construction and closing.                                     *)
(***************************************************************************)
\* socket() / accept(): a new descriptor; descriptors are numbered as the
\* objects are, each object being built for the socket just created
SysSocket(w, cstate, seg) ==
    [w EXCEPT !.sock = Append(@, NewSock(cstate, seg))]

NewObs(how) ==
    [how |-> how, connected |-> 0, removed |-> 0, enq |-> <<>>, dlv |-> <<>>,
     ticks |-> 0, wev |-> 0, in_tick |-> FALSE]

\* the fields of a new Fds_info (lines 367-395)
Fields(net_tag_, index) ==
    [net_tag |-> net_tag_,
     fds_index |-> index,
     delete_me |-> FALSE,
     raw_flag |-> FALSE,
     in_length |-> 0,
     in_message |-> <<>>,
     in_length_got |-> 0,
     in_msg_got |-> 0,
     out_message |-> <<>>,
     out_msg_sent |-> 0,
     owner |-> FALSE,
     freed |-> FALSE]

\* an object whose memory has been given back: nothing of it is left
Freed == [Fields(NET_INFO_CLOSED, 0) EXCEPT !.delete_me = TRUE, !.freed = TRUE]

\* Fds_info::Fds_info(sock, net_tag_, port_); the new object's id is
\* Len(w.heap) + 1, its socket is s
Fds_info(w, s, net_tag_, how) ==
    LET this == Len(w.heap) + 1
        obj == Fields(net_tag_, Len(w.fds))
        pfd == [fd |-> s, events |-> {POLLIN}, revents |-> {}, own |-> this]
    IN  [w EXCEPT !.heap = Append(@, obj),
                  !.obs = Append(@, NewObs(how)),
                  !.info = Append(@, this),
                  !.fds = Append(@, pfd)]

\* the frees of close_socket: in_message, then the whole out_message list
RECURSIVE FreeAll(_, _)
FreeAll(w, msgs) ==
    IF msgs = <<>> THEN w ELSE FreeAll(O2_FREE(w, Head(msgs)), Tail(msgs))

\* faulty variant: the queued messages stay on the closed connection
CloseFieldsKeepQueue(h, s) ==
    [h EXCEPT !.in_message = <<>>,
              !.net_tag = IF s # INVALID_SOCKET THEN NET_INFO_CLOSED ELSE @,
              !.delete_me = TRUE]

\* what close_socket does to the object once the pollfd is at hand
CloseFields(h, s) ==
    [h EXCEPT !.in_message = <<>>,
              !.out_message = <<>>,
              !.net_tag = IF s # INVALID_SOCKET THEN NET_INFO_CLOSED ELSE @,
              !.delete_me = TRUE]

\* faulty variant: the close takes the entry out of the registry at once
close_socket_and_remove(w, this) ==
    LET h == w.heap[this]
        i == h.fds_index
    IN  IF ~bounds_check(w.fds, i) THEN {Fault(w)}
        ELSE
        LET pfd == At(w.fds, i)
            s == pfd.fd
            w1 == FreeAll(w, h.in_message \o h.out_message)
            h2 == CloseFields(h, s)
            w2 == [w1 EXCEPT
                      !.heap[this] = h2,
                      !.fds = pop_back(SetAt(@, i, @[Len(@)])),
                      !.info = pop_back(SetAt(@, i, @[Len(@)])),
                      !.sock = IF s # INVALID_SOCKET
                               THEN KernelClose(@, s) ELSE @,
                      !.flag = TRUE]
        IN  assert(Note(w2, [e |-> "close", id |-> this]),
                   h2.net_tag = NET_INFO_CLOSED)

\* void Fds_info::close_socket()
close_socket(w, this) ==
    LET h == w.heap[this]
        i == h.fds_index
    IN  IF ~bounds_check(w.fds, i) THEN {Fault(w)}
        ELSE
        LET pfd == At(w.fds, i)
            s == pfd.fd
            w1 == FreeAll(w, h.in_message \o h.out_message)
            h2 == CloseFields(h, s)
            w2 == [w1 EXCEPT
                      !.heap[this] = h2,
                      !.fds = SetAt(@, i, [pfd EXCEPT !.fd = INVALID_SOCKET]),
                      !.sock = IF s # INVALID_SOCKET
                               THEN KernelClose(@, s) ELSE @,
                      !.flag = TRUE]
        IN  assert(Note(w2, [e |-> "close", id |-> this]),
                   h2.net_tag = NET_INFO_CLOSED)

(***************************************************************************)
(* Fds_info::send, enqueue, send_tcp.                                      *)
(***************************************************************************)
AddEvent(w, i, ev) ==
    [w EXCEPT !.fds = SetAt(@, i, [At(@, i) EXCEPT !.events = @ \cup {ev}])]

ClearEvent(w, i, ev) ==
    [w EXCEPT !.fds = SetAt(@, i, [At(@, i) EXCEPT !.events = @ \ {ev}])]

\* faulty variant: a partial write does not move the offset
AfterWriteRestart(h, err, n) ==
    IF err >= n
    THEN [h EXCEPT !.out_msg_sent = 0, !.out_message = Tail(@)]
    ELSE h

\* faulty variant: the offset is not set back when the message is complete
AfterWriteKeepOffset(h, err, n) ==
    IF err >= n
    THEN [h EXCEPT !.out_msg_sent = @ + err, !.out_message = Tail(@)]
    ELSE [h EXCEPT !.out_msg_sent = @ + err]

\* the object after ::send accepted err >= 0 of the n bytes it was handed
AfterWrite(h, err, n) ==
    IF err >= n
    THEN [h EXCEPT !.out_msg_sent = 0, !.out_message = Tail(@)]
    ELSE [h EXCEPT !.out_msg_sent = @ + err]

\* faulty variant: the message that could not be written is dropped
AfterBlockedDrop(h) ==
    [h EXCEPT !.out_message = Tail(@), !.out_msg_sent = 0]

\* the object after ::send failed with a retryable errno
AfterBlocked(h) == h

\* the return of send: the observer notes the value and the object
SendRet(w, this, i, r) ==
    Ret(Note(w, [e |-> "send_ret", id |-> this, ret |-> r,
                 h |-> w.heap[this],
                 events |-> IF bounds_check(w.fds, i)
                            THEN At(w.fds, i).events ELSE {}]), r)

\* the while loop of send (lines 771-820); i is the index pfd points at
RECURSIVE send_loop(_, _, _, _)
send_loop(w, this, i, block) ==
    LET h == w.heap[this]
    IN  IF h.out_message = <<>> THEN {SendRet(w, this, i, O2_SUCCESS)}
        ELSE
        LET msg == Head(h.out_message)
            len == msg.length
            all == WireBytes(msg, h.raw_flag)
            n == Len(all) - h.out_msg_sent
            from == SubSeq(all, h.out_msg_sent + 1, Len(all))
            fd == At(w.fds, i).fd
            step(r) ==
                LET w1 == Note([w EXCEPT !.sock = r.sock],
                               [e |-> "write", id |-> this, block |-> block,
                                tag |-> h.net_tag, n |-> n, err |-> r.err,
                                errno |-> r.errno, h |-> h,
                                events |-> At(w.fds, i).events])
                IN  IF r.err < 0
                    THEN IF ~block /\ ~TERMINATING_SOCKET_ERROR(r.errno)
                         THEN {SendRet(
                                 AddEvent([w1 EXCEPT
                                             !.heap[this] = AfterBlocked(h)],
                                          i, POLLOUT),
                                 this, i, O2_BLOCKED)}
                         ELSE IF TERMINATING_SOCKET_ERROR(r.errno)
                         THEN Bind(close_socket(w1, this),
                                   LAMBDA x : {SendRet(x, this, i, O2_FAIL)})
                         ELSE {}
                    ELSE
                    LET w2 == [w1 EXCEPT
                                 !.heap[this] = AfterWrite(h, r.err, n)]
                    IN  IF r.err >= n
                        THEN send_loop(O2_FREE(w2, msg), this, i, block)
                        ELSE IF ~block
                        THEN {SendRet(AddEvent(w2, i, POLLOUT),
                                      this, i, O2_BLOCKED)}
                        ELSE send_loop(w2, this, i, block)
        IN  UNION {step(r) : r \in SysSend(w, fd, from, ~block)}

\* the wait of send(block = true) on a NET_TCP_CONNECTING socket: select()
\* returns once the connect has ended, getsockopt(SO_ERROR) tells how
SysSelectWritable(w, fd) ==
    IF fd = INVALID_SOCKET THEN {[sock |-> w.sock, socket_error |-> TRUE]}
    ELSE IF w.sock[fd].cstate = "pending"
    THEN {[sock |-> [w.sock EXCEPT ![fd].cstate = "ok"],
           socket_error |-> FALSE],
          [sock |-> [w.sock EXCEPT ![fd].cstate = "refused"],
           socket_error |-> TRUE]}
    ELSE {[sock |-> w.sock, socket_error |-> w.sock[fd].cstate # "ok"]}

\* O2err Fds_info::send(bool block)
send(w, this, block) ==
    LET h == w.heap[this]
        i == h.fds_index
    IN  IF h.net_tag = NET_INFO_CLOSED THEN {SendRet(w, this, i, O2_FAIL)}
        ELSE IF ~bounds_check(w.fds, i) THEN {Fault(w)}
        ELSE IF h.net_tag = NET_TCP_CONNECTING /\ block
        THEN UNION {
               LET w1 == [w EXCEPT !.sock = r.sock]
               IN  IF r.socket_error
                   THEN {SendRet(w1, this, i, O2_SOCKET_ERROR)}
                   ELSE send_loop(
                          Note([w1 EXCEPT
                                  !.heap[this].net_tag = NET_TCP_CLIENT],
                               [e |-> "tag", id |-> this, by |-> "send",
                                to |-> NET_TCP_CLIENT]),
                          this, i, block)
               : r \in SysSelectWritable(w, At(w.fds, i).fd)}
        ELSE send_loop(w, this, i, block)

\* where enqueue puts msg (lines 835-847), before any send
Enqueued(h, msg) ==
    IF h.out_message = <<>> /\ h.net_tag # NET_TCP_CONNECTING
    THEN [h EXCEPT !.out_message = <<msg>>, !.out_msg_sent = 0]
    ELSE [h EXCEPT !.out_message = Append(@, msg)]

\* void Fds_info::enqueue(o2n_message_ptr msg)
enqueue(w, this, msg) ==
    LET h == w.heap[this]
        w1 == [w EXCEPT !.heap[this] = Enqueued(h, msg)]
    IN  IF h.out_message = <<>> /\ h.net_tag # NET_TCP_CONNECTING
        THEN send(w1, this, FALSE)
        ELSE {w1}

\* O2err Fds_info::send_tcp(bool block, o2n_message_ptr msg)
send_tcp(w, this, block, msg) ==
    IF w.heap[this].out_message # <<>> /\ block
    THEN Bind(send(w, this, TRUE),
              LAMBDA x : IF x.ret # O2_SUCCESS
                         THEN {Ret(O2_FREE(x, msg), x.ret)}
                         ELSE Bind(enqueue(x, this, msg),
                                   LAMBDA y : {Ret(y, O2_SUCCESS)}))
    ELSE Bind(enqueue(w, this, msg), LAMBDA y : {Ret(y, O2_SUCCESS)})

(***************************************************************************)
(* The UDP utility sends.  The two sending sockets are made by             *)
(* o2n_initialize; a datagram socket keeps in tx what it has sent.         *)
(***************************************************************************)
o2n_broadcast_sock == 1
o2n_udp_send_sock == 2

\* sendto(socket, bytes, n, 0, to, ...): the whole datagram, or an error
SysSendto(w, socket, bytes, to) ==
    {[sock |-> w.sock, err |-> -1],
     [sock |-> [w.sock EXCEPT ![socket].tx =
                   Append(@, [to |-> to, bytes |-> bytes])],
      err |-> Len(bytes)]}

\* faulty variant: the message is freed only when sendto succeeded
o2n_send_udp_via_socket_keep(w, socket, ua, msg) ==
    {LET w1 == Note([w EXCEPT !.sock = r.sock],
                    [e |-> "sendto", socket |-> socket, to |-> ua,
                     bytes |-> msg.payload, err |-> r.err])
     IN  IF r.err < 0 THEN Ret(w1, O2_FAIL)
         ELSE Ret(O2_FREE(w1, msg), O2_SUCCESS)
     : r \in SysSendto(w, socket, msg.payload, ua)}

\* O2err o2n_send_udp_via_socket(SOCKET socket, Net_address *ua, msg)
o2n_send_udp_via_socket(w, socket, ua, msg) ==
    {LET w1 == Note([w EXCEPT !.sock = r.sock],
                    [e |-> "sendto", socket |-> socket, to |-> ua,
                     bytes |-> msg.payload, err |-> r.err])
     IN  Ret(O2_FREE(w1, msg), IF r.err < 0 THEN O2_FAIL ELSE O2_SUCCESS)
     : r \in SysSendto(w, socket, msg.payload, ua)}

\* O2err o2n_send_udp(Net_address *ua, o2n_message_ptr msg)
o2n_send_udp(w, ua, msg) ==
    o2n_send_udp_via_socket(w, o2n_udp_send_sock, ua, msg)

\* void o2n_send_udp_local(int port, o2n_message_ptr msg)
o2n_send_udp_local(w, port, msg) ==
    {LET w1 == Note([w EXCEPT !.sock = r.sock],
                    [e |-> "sendto", socket |-> o2n_udp_send_sock,
                     to |-> <<"localhost", port>>,
                     bytes |-> msg.payload, err |-> r.err])
     IN  Ret(O2_FREE(w1, msg), "void")
     : r \in SysSendto(w, o2n_udp_send_sock, msg.payload,
                       <<"localhost", port>>)}

\* ssize_t o2n_send_broadcast(int port, o2n_message_ptr msg)
o2n_send_broadcast(w, port, msg) ==
    {LET w1 == Note([w EXCEPT !.sock = r.sock],
                    [e |-> "sendto", socket |-> o2n_broadcast_sock,
                     to |-> <<"broadcast", port>>,
                     bytes |-> msg.payload, err |-> r.err])
     IN  Ret(w1, r.err)
     : r \in SysSendto(w, o2n_broadcast_sock, msg.payload,
                       <<"broadcast", port>>)}

(***************************************************************************)
(* Owner callbacks.  An owner is told (the observer counts it) and may     *)
(* call back into this layer, as far as the run's policy lets it.          *)
(***************************************************************************)
Registered(w) == {w.info[k] : k \in 1..Len(w.info)}

Sent(w) ==
    LET RECURSIVE sum(_)
        sum(k) == IF k = 0 THEN 0 ELSE Len(w.obs[k].enq) + sum(k - 1)
    IN  sum(Len(w.obs))

\* Fds_info::close_socket() called by an owner on another connection
OwnerCloses(w, this) ==
    IF "close" \in policy
    THEN UNION {close_socket(w, j) :
                  j \in {x \in Registered(w) :
                           x # this /\ ~w.heap[x].delete_me}}
    ELSE {}

\* owner->connected(): may enqueue a first message on the connection
connected(w, this) ==
    LET w1 == Note([w EXCEPT !.obs[this].connected = @ + 1],
                   [e |-> "connected", id |-> this,
                    tag |-> w.heap[this].net_tag])
    IN  {w1} \cup
        (IF "enqueue" \in policy /\ Sent(w1) < MaxSends
         THEN enqueue([w1 EXCEPT !.obs[this].enq = Append(@, <<>>)],
                      this, Msg(<<>>))
         ELSE {})

\* owner->remove(): may close other connections (a service closing the
\* connections it accepted)
remove(w, this) ==
    LET w1 == Note([w EXCEPT !.obs[this].removed = @ + 1],
                   [e |-> "remove", id |-> this,
                    tag |-> w.heap[this].net_tag])
    IN  {w1} \cup OwnerCloses(w1, this)

\* owner->accepted(conn): the owner takes the new connection over, giving
\* it an owner of its own, or leaves it without one
accepted(w, this, conn) ==
    LET w1 == Note(w, [e |-> "accepted", id |-> this, conn |-> conn])
    IN  {[w1 EXCEPT !.heap[conn].owner = TRUE], w1}

\* owner->deliver(msg): takes the message and reports success or failure
deliver(w, this, msg) ==
    LET told(r) == Ret(Note([w EXCEPT !.obs[this].dlv = Append(@, msg)],
                            [e |-> "deliver", id |-> this, m |-> msg,
                             ret |-> r]), r)
    IN  {told(O2_SUCCESS)}
        \cup (IF "fail" \in policy THEN {told(O2_FAIL)} ELSE {})
        \cup {Ret(x, O2_SUCCESS) : x \in OwnerCloses(told(O2_SUCCESS), this)}

(***************************************************************************)
(* Receiving: read_whole_message and read_event_handler.                   *)
(***************************************************************************)
\* void Fds_info::message_cleanup()
message_cleanup(h) ==
    [h EXCEPT !.in_message = <<>>, !.in_msg_got = 0, !.in_length = 0,
              !.in_length_got = 0]

\* recvfrom into PTR(&in_length) + got: the bytes land in the int's memory
RECURSIVE StoreBytes(_, _, _)
StoreBytes(x, got, data) ==
    IF data = <<>> THEN x
    ELSE StoreBytes(StoreByte(x, got, Head(data)), got + 1, Tail(data))

\* faulty variant: a read that would block starts the message over
error_exit_restart(w, this, n, errno) ==
    LET h == w.heap[this]
    IN  IF n = 0 \/ TERMINATING_SOCKET_ERROR(errno)
        THEN {Ret([FreeAll(w, h.in_message) EXCEPT
                      !.heap[this] = message_cleanup(h)], O2_TCP_HUP)}
        ELSE {Ret([w EXCEPT !.heap[this] = message_cleanup(h)], O2_FAIL)}

\* the label error_exit of read_whole_message, n the result of recvfrom
error_exit(w, this, n, errno) ==
    LET h == w.heap[this]
        lost == IF h.in_message # <<>>
                THEN Note(w, [e |-> "leak", m |-> h.in_message[1]]) ELSE w
    IN  IF n = 0
        THEN {Ret([lost EXCEPT !.heap[this] = message_cleanup(h)], O2_TCP_HUP)}
        ELSE IF n < 0 /\ TERMINATING_SOCKET_ERROR(errno)
        THEN {Ret([FreeAll(w, h.in_message) EXCEPT
                      !.heap[this] = message_cleanup(h)], O2_TCP_HUP)}
        ELSE {Ret(w, O2_FAIL)}

\* the object after n > 0 bytes `data` of the length field arrived
AfterLengthBytes(h, n, data) ==
    LET h1 == [h EXCEPT !.in_length = StoreBytes(@, h.in_length_got, data),
                        !.in_length_got = @ + n]
    IN  IF h1.in_length_got < LengthBytes THEN h1
        ELSE [h1 EXCEPT !.in_length = htonl(@),
                        !.in_message = <<o2n_message_new(htonl(h1.in_length))>>,
                        !.in_msg_got = 0]

\* faulty variant: every chunk is stored at the start of the payload
AfterBodyBytesAtStart(h, n, data) ==
    [h EXCEPT !.in_message[1].payload = data \o SubSeq(@, n + 1, Len(@)),
              !.in_msg_got = @ + n]

\* the object after n > 0 bytes `data` of the payload arrived
AfterBodyBytes(h, n, data) ==
    [h EXCEPT !.in_message[1].payload = @ \o data, !.in_msg_got = @ + n]

\* the second half of the framed branch: "read the full message"
read_body(w, this, s) ==
    LET h == w.heap[this]
        done(x) ==
            {Ret([x EXCEPT !.heap[this].in_message[1].length =
                              x.heap[this].in_length], O2_SUCCESS)}
    IN  IF h.in_msg_got < h.in_length
        THEN UNION {
               LET w1 == Note([w EXCEPT !.sock = r.sock],
                              [e |-> "read", id |-> this, n |-> r.n,
                               errno |-> r.errno, h |-> h])
               IN  IF r.n <= 0 THEN error_exit(w1, this, r.n, r.errno)
                   ELSE LET w2 == [w1 EXCEPT !.heap[this] =
                                      AfterBodyBytes(h, r.n, r.data)]
                        IN  IF w2.heap[this].in_msg_got < h.in_length
                            THEN {Ret(w2, O2_FAIL)}
                            ELSE done(w2)
               : r \in SysRecv(w, s, h.in_length - h.in_msg_got)}
             \cup Waits(w, s, h.in_length - h.in_msg_got)
        ELSE done(w)

\* O2err Fds_info::read_whole_message(SOCKET sock)
read_whole_message(w, this, s) ==
    LET h == w.heap[this]
    IN  IF h.raw_flag
        THEN Bind(assert(w, h.net_tag \in {NET_TCP_SERVER, NET_TCP_CLIENT}),
               LAMBDA w0 :
                 LET lost == IF h.in_message # <<>>
                             THEN Note(w0, [e |-> "leak",
                                            m |-> h.in_message[1]])
                             ELSE w0
                     w1 == [lost EXCEPT !.heap[this].in_message =
                                           <<o2n_message_new(0)>>]
                 IN  UNION {
                       LET w2 == Note([w1 EXCEPT !.sock = r.sock],
                                      [e |-> "read", id |-> this, n |-> r.n,
                                       errno |-> r.errno, h |-> h])
                       IN  IF r.n < 0
                           THEN error_exit(w2, this, r.n, r.errno)
                           ELSE {Ret([w2 EXCEPT !.heap[this].in_message =
                                         <<[length |-> r.n,
                                            payload |-> r.data]>>],
                                     O2_SUCCESS)}
                       : r \in SysRecv(w1, s, RawMax)}
                     \cup Waits(w1, s, RawMax))
        ELSE IF h.in_length_got < LengthBytes
        THEN UNION {
               LET w1 == Note([w EXCEPT !.sock = r.sock],
                              [e |-> "read", id |-> this, n |-> r.n,
                               errno |-> r.errno, h |-> h])
               IN  IF r.n <= 0 THEN error_exit(w1, this, r.n, r.errno)
                   ELSE LET h2 == AfterLengthBytes(h, r.n, r.data)
                            w2 == [w1 EXCEPT !.heap[this] = h2]
                        IN  IF h2.in_length_got < LengthBytes
                            THEN {Ret(w2, O2_FAIL)}
                            ELSE Bind(assert(w2, h.in_message = <<>>),
                                      LAMBDA x : read_body(x, this, s))
               : r \in SysRecv(w, s, LengthBytes - h.in_length_got)}
             \cup Waits(w, s, LengthBytes - h.in_length_got)
        ELSE read_body(w, this, s)

\* faulty variant: one call takes every pending connection off the queue
SysAcceptAll(w, s) ==
    {[sock |-> w.sock, ok |-> FALSE]}
    \cup (IF s # INVALID_SOCKET /\ w.sock[s].backlog > 0
          THEN {[sock |-> [w.sock EXCEPT ![s].backlog = 0], ok |-> TRUE]}
          ELSE {})

\* accept(sock, NULL, NULL): a new descriptor, or INVALID_SOCKET
SysAccept(w, s) ==
    {[sock |-> w.sock, ok |-> FALSE]}
    \cup (IF s # INVALID_SOCKET /\ w.sock[s].backlog > 0
          THEN {[sock |-> [w.sock EXCEPT ![s].backlog = @ - 1], ok |-> TRUE]}
          ELSE {})

\* what o2n_message_ptr msg = in_message is when in_message is NULL
NullMessage == [length |-> -1, payload |-> <<>>]

\* ioctlsocket(sock, FIONREAD, &len) on a datagram socket: the size of the
\* next datagram, or a failure
SysFionread(w, s) ==
    IF s = INVALID_SOCKET THEN {[ok |-> FALSE, len |-> 0]}
    ELSE {[ok |-> TRUE,
           len |-> IF w.sock[s].rx = <<>> THEN 0
                   ELSE Len(Head(w.sock[s].rx))]}

\* recvfrom on a datagram socket: the next datagram, cut to len bytes
SysRecvDatagram(w, s, len) ==
    LET rx == w.sock[s].rx
    IN  IF rx = <<>>
        THEN {[sock |-> w.sock, n |-> -1, errno |-> EAGAIN, data |-> <<>>]}
        ELSE {[sock |-> w.sock, n |-> -1, errno |-> EINTR, data |-> <<>>],
              [sock |-> [w.sock EXCEPT ![s].rx = Tail(rx)],
               n |-> Min(len, Len(Head(rx))), errno |-> "0",
               data |-> SubSeq(Head(rx), 1, Min(len, Len(Head(rx))))]}

\* lines 1112-1156: the NET_UDP_SERVER branch of read_event_handler, up to
\* the common code
udp_recv(w, this, s) ==
    LET h == w.heap[this]
    IN  UNION {
          IF ~f.ok THEN {Ret(w, O2_FAIL)}
          ELSE Bind(assert(w, h.in_message = <<>>),
                 LAMBDA w0 :
                   UNION {
                     LET w1 == Note([w0 EXCEPT !.sock = r.sock],
                                    [e |-> "read", id |-> this, n |-> r.n,
                                     errno |-> r.errno, h |-> h,
                                     queued |-> w0.sock[s].rx])
                     IN  IF r.n <= 0
                         THEN {Ret([O2_FREE(w1, o2n_message_new(f.len))
                                      EXCEPT !.heap[this].in_message = <<>>],
                                   O2_FAIL)}
                         ELSE {Ret([w1 EXCEPT !.heap[this].in_message =
                                      <<[length |-> r.n, payload |-> r.data]>>],
                                   O2_SUCCESS)}
                     : r \in SysRecvDatagram(w0, s, f.len)})
          : f \in SysFionread(w, s)}

\* faulty variant: a failed delivery closes whatever the connection is
common_code_any_tag(w, this) ==
    LET h == w.heap[this]
        msg == IF h.in_message = <<>> THEN NullMessage ELSE h.in_message[1]
        w1 == [w EXCEPT !.heap[this] = message_cleanup(h)]
        told == IF h.owner THEN deliver(w1, this, msg)
                ELSE {Ret(O2_FREE(w1, msg), O2_FAIL)}
    IN  Bind(told,
             LAMBDA x :
               IF x.ret # O2_SUCCESS
               THEN Bind(close_socket(x, this),
                         LAMBDA y : {Ret(y, O2_SUCCESS)})
               ELSE {Ret(x, O2_SUCCESS)})

\* "COMMON CODE for TCP and UDP receive message" of read_event_handler
common_code(w, this) ==
    LET h == w.heap[this]
        msg == IF h.in_message = <<>> THEN NullMessage ELSE h.in_message[1]
        w1 == [w EXCEPT !.heap[this] = message_cleanup(h)]
        told == IF h.owner THEN deliver(w1, this, msg)
                ELSE {Ret(O2_FREE(w1, msg), O2_FAIL)}
    IN  Bind(told,
             LAMBDA x :
               IF x.ret # O2_SUCCESS
                  /\ x.heap[this].net_tag \in
                        {NET_TCP_CONNECTING, NET_TCP_CLIENT, NET_TCP_CONNECTION}
               THEN Bind(close_socket(x, this),
                         LAMBDA y : {Ret(y, O2_SUCCESS)})
               ELSE {Ret(x, O2_SUCCESS)})

\* int Fds_info::read_event_handler(SOCKET sock)
read_event_handler(w, this, s) ==
    LET h == w.heap[this]
    IN  IF h.net_tag \in {NET_TCP_CONNECTION, NET_TCP_CLIENT}
        THEN Bind(read_whole_message(w, this, s),
                  LAMBDA x : IF x.ret = O2_FAIL THEN {Ret(x, O2_SUCCESS)}
                             ELSE IF x.ret # O2_SUCCESS THEN {x}
                             ELSE common_code(x, this))
        ELSE IF h.net_tag = NET_TCP_SERVER
        THEN UNION {
               LET conn == IF r.ok THEN Len(w.heap) + 1 ELSE INVALID_SOCKET
                   w0 == Note([w EXCEPT !.sock = r.sock],
                              [e |-> "accept", id |-> this, conn |-> conn,
                               pending |-> IF s = INVALID_SOCKET THEN 0
                                           ELSE w.sock[s].backlog,
                               fds |-> w.fds, info |-> w.info])
               IN  IF ~r.ok THEN {Ret(w0, O2_FAIL)}
                   ELSE IF Len(w.heap) >= MaxObjs THEN {}
                   ELSE LET w1 == Fds_info(
                                    SysSocket(w0, "ok", 0),
                                    conn, NET_TCP_CONNECTION,
                                    IF h.owner THEN "accept" ELSE "unowned")
                        IN  Bind(IF h.owner THEN accepted(w1, this, conn)
                                 ELSE close_socket(w1, conn),
                                 LAMBDA y : {Ret(y, O2_SUCCESS)})
               : r \in SysAccept(w, s)}
        ELSE IF h.net_tag = NET_UDP_SERVER
        THEN Bind(udp_recv(w, this, s),
                  LAMBDA x : IF x.ret # O2_SUCCESS THEN {x}
                             ELSE common_code(x, this))
        ELSE Bind(assert(w, FALSE), LAMBDA x : common_code(x, this))

(***************************************************************************)
(* The registry: removal by the destructor, the failed-connect cleanup,    *)
(* and the constructors' callers.                                          *)
(***************************************************************************)
\* faulty variant: the moved object keeps its old index
MoveLastUnstamped(w, i) ==
    [w EXCEPT !.fds = SetAt(@, i, @[Len(@)]),
              !.info = SetAt(@, i, w.info[Len(w.info)])]

\* lines 628-634: the last entry of both arrays moves to index i
MoveLast(w, i) ==
    LET replace == w.info[Len(w.info)]
    IN  [w EXCEPT !.fds = SetAt(@, i, @[Len(@)]),
                  !.info = SetAt(@, i, replace),
                  !.heap[replace].fds_index = i]

\* faulty variant: o2n_fds.pop_back() is forgotten
CompactInfoOnly(w, i) ==
    LET w1 == IF Len(w.fds) > i + 1 THEN MoveLast(w, i) ELSE w
    IN  [w1 EXCEPT !.info = pop_back(@)]

\* lines 628-636
Compact(w, i) ==
    LET w1 == IF Len(w.fds) > i + 1 THEN MoveLast(w, i) ELSE w
    IN  [w1 EXCEPT !.fds = pop_back(@), !.info = pop_back(@)]

\* Fds_info::~Fds_info(), and the object's memory given back
Destructor(w, this) ==
    LET h == w.heap[this]
        i == h.fds_index
        gone(x) == [x EXCEPT !.heap[this] = Freed]
        rest(x) ==
            Bind(assert(x, h.net_tag = NET_INFO_CLOSED),
                 LAMBDA y : IF h.owner
                            THEN {gone(z) : z \in remove(y, this)}
                            ELSE {gone(y)})
    IN  Bind(assert(w, bounds_check(w.fds, i)),
             LAMBDA x :
               IF Len(x.fds) = 0 \/ i < 0 THEN {Fault(x)}
               ELSE LET y == Compact(x, i)
                    IN  rest(Note(y, [e |-> "delete", id |-> this, i |-> i,
                                      fds |-> y.fds, info |-> y.info,
                                      tag |-> h.net_tag,
                                      inrange |-> bounds_check(w.fds, i)])))

\* Fds_info *Fds_info::cleanup(const char *error, SOCKET sock)
cleanup(w, this, s) ==
    LET w1 == [w EXCEPT !.sock = KernelClose(@, s),
                        !.info = pop_back(@),
                        !.fds = pop_back(@)]
    IN  Destructor(w1, this)

\* ::connect() on a non-blocking socket: done at once, in progress, or failed
ConnectResults == {"connected", "EINPROGRESS", "ECONNREFUSED"}

\* Fds_info *Fds_info::create_tcp_client(Net_address *remote_addr): the
\* socket is created, the object registered, then connect gives `result`
create_tcp_client(w, result) ==
    LET info == Len(w.heap) + 1
        w1 == Fds_info(SysSocket(w, IF result = "connected" THEN "ok"
                                    ELSE IF result = "EINPROGRESS"
                                    THEN "pending" ELSE "refused", 0),
                       info, NET_TCP_CONNECTING, result)
        i == w1.heap[info].fds_index
    IN  IF result = "EINPROGRESS" THEN {Ret(AddEvent(w1, i, POLLOUT), "info")}
        ELSE IF result = "connected"
        THEN {Ret([w1 EXCEPT !.heap[w1.info[i + 1]].net_tag = NET_TCP_CLIENT],
                  "info")}
        ELSE {Ret(x, "NULL") : x \in cleanup(w1, info, info)}

\* Fds_info *Fds_info::create_udp_server(int *port, bool reuse), the bind
\* succeeding; the socket's rx is the queue of datagrams received
create_udp_server(w) ==
    LET info == Len(w.heap) + 1
    IN  {Ret(Fds_info(SysSocket(w, "udp", 0), info, NET_UDP_SERVER, "udp"),
             "info")}

\* Fds_info *Fds_info::create_tcp_server(int port), bind and listen succeeding
create_tcp_server(w) ==
    LET info == Len(w.heap) + 1
    IN  {Ret(Fds_info(SysSocket(w, "none", 0), info, NET_TCP_SERVER, "listen"),
             "info")}

(***************************************************************************)
(* poll() and the body of the dispatch loop of o2n_recv.                   *)
(***************************************************************************)
Readable(sk) ==
    sk.rx # <<>> \/ sk.eof \/ sk.backlog > 0 \/ sk.rst \/ sk.cstate = "refused"

Writable(sk, fd) ==
    /\ sk[fd].cstate \in {"ok", "refused"}
    /\ Room(sk, fd) > 0 \/ sk[fd].eof \/ sk[fd].rst \/ sk[fd].cstate = "refused"

\* the revents poll() reports for one pollfd; a negative fd is skipped, and
\* POLLERR and POLLHUP are reported whether asked for or not
Revents(sk, pfd) ==
    IF pfd.fd = INVALID_SOCKET THEN {}
    ELSE (IF sk[pfd.fd].rst \/ sk[pfd.fd].cstate = "refused"
          THEN {POLLERR} ELSE {})
         \cup (IF sk[pfd.fd].hup THEN {POLLHUP} ELSE {})
         \cup (IF POLLIN \in pfd.events /\ Readable(sk[pfd.fd])
               THEN {POLLIN} ELSE {})
         \cup (IF POLLOUT \in pfd.events /\ Writable(sk, pfd.fd)
               THEN {POLLOUT} ELSE {})

\* poll(&o2n_fds[0], o2n_fds.size(), 0)
SysPoll(w) ==
    [w EXCEPT !.fds = [k \in 1..Len(w.fds) |->
                         [w.fds[k] EXCEPT
                            !.revents = Revents(w.sock, w.fds[k])]]]

\* faulty variant: write-interest is dropped whatever the send returned
on_pollout_clear_always(w, i) ==
    LET fi == At(w.info, i)
        w0 == IF "count" \in policy THEN [w EXCEPT !.obs[fi].wev = @ + 1]
              ELSE w
        h == w.heap[fi]
        started ==
            IF h.net_tag = NET_TCP_CONNECTING
            THEN LET w1 == Note([w0 EXCEPT !.heap[fi].net_tag = NET_TCP_CLIENT],
                                [e |-> "tag", id |-> fi, by |-> "o2n_recv",
                                 to |-> NET_TCP_CLIENT])
                 IN  IF h.owner THEN connected(w1, fi) ELSE {w1}
            ELSE {w0}
    IN  Bind(started,
             LAMBDA x :
               IF x.heap[fi].out_message # <<>>
               THEN Bind(send(x, fi, FALSE),
                         LAMBDA y : {ClearEvent(y, i, POLLOUT)})
               ELSE {ClearEvent(x, i, POLLOUT)})

\* lines 968-986: the POLLOUT branch
on_pollout(w, i) ==
    LET fi == At(w.info, i)
        w0 == IF "count" \in policy THEN [w EXCEPT !.obs[fi].wev = @ + 1]
              ELSE w
        h == w.heap[fi]
        started ==
            IF h.net_tag = NET_TCP_CONNECTING
            THEN LET w1 == Note([w0 EXCEPT !.heap[fi].net_tag = NET_TCP_CLIENT],
                                [e |-> "tag", id |-> fi, by |-> "o2n_recv",
                                 to |-> NET_TCP_CLIENT])
                 IN  IF h.owner THEN connected(w1, fi) ELSE {w1}
            ELSE {w0}
    IN  Bind(started,
             LAMBDA x :
               IF x.heap[fi].out_message # <<>>
               THEN Bind(send(x, fi, FALSE),
                         LAMBDA y : IF y.ret = O2_SUCCESS
                                    THEN {ClearEvent(y, i, POLLOUT)}
                                    ELSE {y})
               ELSE {ClearEvent(x, i, POLLOUT)})

\* lines 987-996: the POLLIN branch
on_pollin(w, i) ==
    LET fi == At(w.info, i)
    IN  Bind(read_event_handler(w, fi, At(w.fds, i).fd),
             LAMBDA x : IF x.ret # O2_SUCCESS THEN close_socket(x, fi)
                        ELSE {x})

\* the branch of the loop body taken is noted in the world, for the observer
Took(w, flag) == [w EXCEPT !.branch = Append(@, flag)]

\* faulty variant: POLLOUT is looked at before POLLERR
dispatch_out_first(w, i) ==
    LET revents == At(w.fds, i).revents
    IN  IF POLLOUT \in revents THEN on_pollout(Took(w, POLLOUT), i)
        ELSE IF POLLERR \in revents THEN {Took(w, POLLERR)}
        ELSE IF POLLHUP \in revents
        THEN close_socket(Took(w, POLLHUP), At(w.info, i))
        ELSE IF POLLIN \in revents THEN on_pollin(Took(w, POLLIN), i)
        ELSE {w}

\* faulty variant: POLLIN is looked at before POLLOUT
dispatch_in_first(w, i) ==
    LET revents == At(w.fds, i).revents
    IN  IF POLLERR \in revents THEN {Took(w, POLLERR)}
        ELSE IF POLLHUP \in revents
        THEN close_socket(Took(w, POLLHUP), At(w.info, i))
        ELSE IF POLLIN \in revents THEN on_pollin(Took(w, POLLIN), i)
        ELSE IF POLLOUT \in revents THEN on_pollout(Took(w, POLLOUT), i)
        ELSE {w}

\* lines 957-996: the body of the for loop, for index i
dispatch(w, i) ==
    LET revents == At(w.fds, i).revents
    IN  IF POLLERR \in revents THEN {Took(w, POLLERR)}
        ELSE IF POLLHUP \in revents
        THEN close_socket(Took(w, POLLHUP), At(w.info, i))
        ELSE IF POLLOUT \in revents THEN on_pollout(Took(w, POLLOUT), i)
        ELSE IF POLLIN \in revents THEN on_pollin(Took(w, POLLIN), i)
        ELSE {w}

(***************************************************************************)
(* Actions.  The application calls in between two calls of o2n_recv        *)
(* (pc = "idle"); o2n_recv runs as a sequence of steps: the sweep before   *)
(* poll, poll, one step per descriptor, the sweep after the loop.  The     *)
(* kernel and the remote peers act at any time.                            *)
(***************************************************************************)
Running == ~crashed
Idle == pc = "idle" /\ Running

Did(op, id, w, pre) ==
    last' = [op |-> op, id |-> id, ret |-> w.ret, log |-> w.log, pre |-> pre]

Registry == [fds |-> o2n_fds, info |-> o2n_fds_info]

\* objects and waiting connections: what MaxObjs bounds
Budget ==
    LET RECURSIVE sum(_)
        sum(k) == IF k = 0 THEN 0 ELSE sock[k].backlog + sum(k - 1)
    IN  Len(heap) + sum(Len(sock))

Live == {id \in 1..Len(heap) : ~heap[id].freed}

Senders ==
    {id \in Live : heap[id].net_tag \in
        {NET_TCP_CONNECTING, NET_TCP_CLIENT, NET_TCP_CONNECTION,
         NET_INFO_CLOSED}}

\* the application creates a listener and attaches (or not) an owner
ApiCreateTcpServer ==
    /\ Idle /\ Budget < MaxObjs
    /\ \E own \in BOOLEAN : \E w \in create_tcp_server(World) :
         /\ Commit([w EXCEPT !.heap[Len(w.heap)].owner = own])
         /\ Did("create_tcp_server", Len(w.heap), w, <<>>)
    /\ UNCHANGED <<pc, tick_i, tick_len, policy, shmvars>>

\* the application connects; on success it attaches (or not) an owner
ApiCreateTcpClient ==
    /\ Idle /\ Budget < MaxObjs
    /\ \E own \in BOOLEAN, result \in ConnectResults :
       \E w \in create_tcp_client(World, result) :
         /\ Commit(IF w.ret = "info" /\ ~w.crashed
                   THEN [w EXCEPT !.heap[Len(w.heap)].owner = own] ELSE w)
         /\ Did("create_tcp_client", Len(w.heap), w, Registry)
    /\ UNCHANGED <<pc, tick_i, tick_len, policy, shmvars>>

ApiCloseSocket ==
    /\ Idle
    /\ \E id \in Live : \E w \in close_socket(World, id) :
         Commit(w) /\ Did("close_socket", id, w, Registry)
    /\ UNCHANGED <<pc, tick_i, tick_len, policy, shmvars>>

Issued == Sent([obs |-> obs])

ApiEnqueue(Ids, Payloads) ==
    /\ Idle /\ Issued < MaxSends
    /\ \E id \in Senders \cap Ids, bytes \in Payloads :
       \E w \in enqueue([World EXCEPT !.obs[id].enq = Append(@, bytes)],
                        id, Msg(bytes)) :
         Commit(w) /\ Did("enqueue", id, w, <<>>)
    /\ UNCHANGED <<pc, tick_i, tick_len, policy, shmvars>>

ApiSendTcp(Ids, Payloads) ==
    /\ Idle /\ Issued < MaxSends
    /\ \E id \in Senders \cap Ids, bytes \in Payloads :
       \E w \in send_tcp([World EXCEPT !.obs[id].enq = Append(@, bytes)],
                         id, TRUE, Msg(bytes)) :
         /\ Commit(IF w.ret = O2_SUCCESS \/ w.crashed THEN w
                   ELSE [w EXCEPT !.obs[id].enq = SubSeq(@, 1, Len(@) - 1)])
         /\ Did("send_tcp", id, w, <<>>)
    /\ UNCHANGED <<pc, tick_i, tick_len, policy, shmvars>>

ApiSend(Ids) ==
    /\ Idle
    /\ \E id \in Senders \cap Ids, block \in BOOLEAN :
       \E w \in send(World, id, block) :
         Commit(w) /\ Did("send", id, w, [block |-> block])
    /\ UNCHANGED <<pc, tick_i, tick_len, policy, shmvars>>

\* datagrams the two sending sockets have sent
DatagramsSent ==
    Len(sock[o2n_broadcast_sock].tx) + Len(sock[o2n_udp_send_sock].tx)

ApiSendUdp(Payloads) ==
    /\ Idle /\ DatagramsSent < MaxSends
    /\ \E bytes \in Payloads :
       \E w \in o2n_send_udp(World, "ua", Msg(bytes)) :
         Commit(w) /\ Did("o2n_send_udp", 0, w, [msg |-> Msg(bytes)])
    /\ UNCHANGED <<pc, tick_i, tick_len, policy, shmvars>>

ApiSendUdpLocal(Payloads) ==
    /\ Idle /\ DatagramsSent < MaxSends
    /\ \E bytes \in Payloads :
       \E w \in o2n_send_udp_local(World, "port", Msg(bytes)) :
         Commit(w) /\ Did("o2n_send_udp_local", 0, w, [msg |-> Msg(bytes)])
    /\ UNCHANGED <<pc, tick_i, tick_len, policy, shmvars>>

ApiSendBroadcast(Payloads) ==
    /\ Idle /\ DatagramsSent < MaxSends
    /\ \E bytes \in Payloads :
       \E w \in o2n_send_broadcast(World, "port", Msg(bytes)) :
         Commit(w) /\ Did("o2n_send_broadcast", 0, w, [msg |-> Msg(bytes)])
    /\ UNCHANGED <<pc, tick_i, tick_len, policy, shmvars>>

(***************************************************************************)
(* o2n_recv (lines 946-1007) and o2n_free_deleted_sockets (648-667).       *)
(***************************************************************************)
\* the observer follows a connection that connect() completed at once
\* through its first whole call of o2n_recv: 0 none yet, 1 polled, 2 returned;
\* and it marks, from poll to the return of o2n_recv, the objects that were
\* registered when poll was called (in_tick)
Polled(ob, w) ==
    [k \in 1..Len(ob) |->
       [ob[k] EXCEPT
          !.ticks = IF ob[k].how = "connected" /\ @ = 0 /\ k \in Registered(w)
                    THEN 1 ELSE @,
          !.in_tick = k \in Registered(w)]]

Returned(ob) ==
    [k \in 1..Len(ob) |->
       [ob[k] EXCEPT !.ticks = IF @ = 1 THEN 2 ELSE @, !.in_tick = FALSE]]

\* faulty variant: o2n_recv goes to poll without the sweep
TickStartNoSweep ==
    /\ Idle
    /\ pc' = "poll"
    /\ tick_i' = 0
    /\ last' = [op |-> "o2n_recv", id |-> 0, ret |-> O2_SUCCESS, log |-> <<>>,
                pre |-> <<>>]
    /\ UNCHANGED <<o2n_fds, o2n_fds_info, heap, o2n_socket_delete_flag, sock,
                   crashed, obs, tick_len, policy, shmvars>>

\* line 951: if (o2n_socket_delete_flag) o2n_free_deleted_sockets();
TickStart ==
    /\ Idle
    /\ IF o2n_socket_delete_flag
       THEN /\ o2n_socket_delete_flag' = FALSE
            /\ pc' = "sweep1"
       ELSE /\ pc' = "poll"
            /\ UNCHANGED o2n_socket_delete_flag
    /\ tick_i' = 0
    /\ last' = [op |-> "o2n_recv", id |-> 0, ret |-> O2_SUCCESS, log |-> <<>>,
                pre |-> <<>>]
    /\ UNCHANGED <<o2n_fds, o2n_fds_info, heap, sock, crashed, obs, tick_len,
                   policy, shmvars>>

\* the observer's account of the running sweep: the passes it has ended,
\* and whether a remove() hook of it has closed another connection
Sweeping ==
    IF last.op \in {"scan", "delete", "pass"}
    THEN [passes |-> last.pre.passes, cascade |-> last.pre.cascade]
    ELSE [passes |-> 0, cascade |-> FALSE]

Closes(log) == \E k \in 1..Len(log) : log[k].e = "close"

\* one turn of the inner loop of o2n_free_deleted_sockets: delete fi, or i++
SweepStep ==
    /\ pc \in {"sweep1", "sweep2"} /\ Running
    /\ tick_i < Len(o2n_fds_info)
    /\ LET fi == At(o2n_fds_info, tick_i)
       IN  IF heap[fi].delete_me
           THEN /\ \E w \in Destructor(World, fi) :
                     /\ Commit(w)
                     /\ Did("delete", fi, w,
                            [fds |-> o2n_fds, info |-> o2n_fds_info,
                             owner |-> heap[fi].owner,
                             passes |-> Sweeping.passes,
                             cascade |-> Sweeping.cascade \/ Closes(w.log)])
                /\ UNCHANGED tick_i
           ELSE /\ tick_i' = tick_i + 1
                /\ last' = [op |-> "scan", id |-> fi, ret |-> O2_SUCCESS,
                            log |-> <<>>, pre |-> Sweeping]
                /\ UNCHANGED <<o2n_fds, o2n_fds_info, heap,
                               o2n_socket_delete_flag, sock, crashed, obs>>
    /\ UNCHANGED <<pc, tick_len, policy, shmvars>>

\* faulty variant: the sweep returns after one pass, whatever the flag says
SweepOnce ==
    /\ pc \in {"sweep1", "sweep2"} /\ Running
    /\ tick_i >= Len(o2n_fds_info)
    /\ tick_i' = 0
    /\ pc' = IF pc = "sweep1" THEN "poll" ELSE "idle"
    /\ obs' = IF pc = "sweep2" THEN Returned(obs) ELSE obs
    /\ last' = [op |-> "swept", id |-> 0, ret |-> O2_SUCCESS, log |-> <<>>,
                pre |-> Sweeping]
    /\ UNCHANGED <<o2n_fds, o2n_fds_info, heap, o2n_socket_delete_flag, sock,
                   crashed, tick_len, policy, shmvars>>

\* the end of a pass: once more while the flag is set, else the sweep returns
SweepPass ==
    /\ pc \in {"sweep1", "sweep2"} /\ Running
    /\ tick_i >= Len(o2n_fds_info)
    /\ tick_i' = 0
    /\ IF o2n_socket_delete_flag
       THEN /\ o2n_socket_delete_flag' = FALSE
            /\ last' = [op |-> "pass", id |-> 0, ret |-> O2_SUCCESS,
                        log |-> <<>>,
                        pre |-> [Sweeping EXCEPT !.passes = Min(@ + 1, 2)]]
            /\ UNCHANGED <<pc, obs>>
       ELSE /\ pc' = IF pc = "sweep1" THEN "poll" ELSE "idle"
            /\ obs' = IF pc = "sweep2" THEN Returned(obs) ELSE obs
            /\ last' = [op |-> "swept", id |-> 0, ret |-> O2_SUCCESS,
                        log |-> <<>>, pre |-> Sweeping]
            /\ UNCHANGED o2n_socket_delete_flag
    /\ UNCHANGED <<o2n_fds, o2n_fds_info, heap, sock, crashed, tick_len,
                   policy, shmvars>>

\* lines 953-954: poll, and the length the loop will cover
Poll ==
    /\ pc = "poll" /\ Running
    /\ LET w == SysPoll(World)
       IN  /\ Commit([w EXCEPT !.obs = Polled(@, w)])
           /\ Did("poll", 0, w, <<>>)
    /\ tick_len' = Len(o2n_fds)
    /\ tick_i' = 0
    /\ pc' = "dispatch"
    /\ UNCHANGED <<policy, shmvars>>

\* faulty variant: the loop runs to the length the registry has now
DispatchToEnd ==
    /\ pc = "dispatch" /\ Running
    /\ tick_i < Len(o2n_fds)
    /\ \E w \in dispatch(World, tick_i) :
         /\ Commit(w)
         /\ tick_i' = IF w.waits THEN tick_i ELSE tick_i + 1
         /\ pc' = IF w.waits THEN "recvfrom" ELSE pc
         /\ last' = [op |-> "dispatch", id |-> At(o2n_fds_info, tick_i),
                     ret |-> w.ret, log |-> w.log,
                     pre |-> [revents |-> At(o2n_fds, tick_i).revents,
                              branch |-> w.branch,
                              fds |-> o2n_fds, info |-> o2n_fds_info,
                              tag |-> heap[At(o2n_fds_info, tick_i)].net_tag,
                              rx |-> IF At(o2n_fds, tick_i).fd = INVALID_SOCKET
                                     THEN <<>>
                                     ELSE sock[At(o2n_fds, tick_i).fd].rx,
                              refused |->
                                 At(o2n_fds, tick_i).fd # INVALID_SOCKET
                                 /\ sock[At(o2n_fds_info, tick_i)].cstate
                                       = "refused"]]
    /\ UNCHANGED <<tick_len, policy, shmvars>>

\* one turn of the for loop, or the part of it up to a system call that
\* does not return
Dispatch ==
    /\ pc = "dispatch" /\ Running
    /\ tick_i < tick_len
    /\ \E w \in dispatch(World, tick_i) :
         /\ Commit(w)
         /\ tick_i' = IF w.waits THEN tick_i ELSE tick_i + 1
         /\ pc' = IF w.waits THEN "recvfrom" ELSE pc
         /\ last' = [op |-> "dispatch", id |-> At(o2n_fds_info, tick_i),
                     ret |-> w.ret, log |-> w.log,
                     pre |-> [revents |-> At(o2n_fds, tick_i).revents,
                              branch |-> w.branch,
                              fds |-> o2n_fds, info |-> o2n_fds_info,
                              tag |-> heap[At(o2n_fds_info, tick_i)].net_tag,
                              rx |-> IF At(o2n_fds, tick_i).fd = INVALID_SOCKET
                                     THEN <<>>
                                     ELSE sock[At(o2n_fds, tick_i).fd].rx,
                              refused |->
                                 At(o2n_fds, tick_i).fd # INVALID_SOCKET
                                 /\ sock[At(o2n_fds_info, tick_i)].cstate
                                       = "refused"]]
    /\ UNCHANGED <<tick_len, policy, shmvars>>

\* bytes, an end of file or a reset arrive for the recvfrom the handler of
\* index tick_i waits in: the call returns; which is to say that the
\* handler goes on from the object's assembly state, as a new call would
RecvWakes ==
    /\ pc = "recvfrom" /\ Running
    /\ LET sk == sock[At(o2n_fds, tick_i).fd]
       IN  sk.rx # <<>> \/ sk.eof \/ sk.rst
    /\ pc' = "dispatch"
    /\ last' = [op |-> "recvfrom", id |-> At(o2n_fds_info, tick_i),
                ret |-> O2_SUCCESS, log |-> <<>>, pre |-> <<>>]
    /\ UNCHANGED <<o2n_fds, o2n_fds_info, heap, o2n_socket_delete_flag, sock,
                   crashed, obs, tick_i, tick_len, policy, shmvars>>

\* revents are dead once the loop is over: the next poll overwrites them
\* before anything reads them, so the model forgets them here
Unpolled(fds) == [k \in 1..Len(fds) |-> [fds[k] EXCEPT !.revents = {}]]

\* line 1005: after the loop, the sweep again if the flag is set
TickEnd ==
    /\ pc = "dispatch" /\ Running
    /\ tick_i >= tick_len
    /\ IF o2n_socket_delete_flag
       THEN /\ o2n_socket_delete_flag' = FALSE
            /\ pc' = "sweep2"
            /\ UNCHANGED obs
       ELSE /\ pc' = "idle"
            /\ obs' = Returned(obs)
            /\ UNCHANGED o2n_socket_delete_flag
    /\ tick_i' = 0
    /\ tick_len' = 0
    /\ last' = [op |-> "loop_end", id |-> 0, ret |-> O2_SUCCESS, log |-> <<>>,
                pre |-> <<>>]
    /\ o2n_fds' = Unpolled(o2n_fds)
    /\ UNCHANGED <<o2n_fds_info, heap, sock, crashed, policy, shmvars>>

(***************************************************************************)
(* The environment: the kernel and the remote peers.                       *)
(***************************************************************************)
Quiet == [op |-> "env", id |-> 0, ret |-> O2_SUCCESS, log |-> <<>>,
          pre |-> <<>>]

OpenFds == {o2n_fds[k].fd : k \in 1..Len(o2n_fds)} \ {INVALID_SOCKET}

Env(sk) ==
    /\ Running
    /\ sock' = sk
    /\ last' = Quiet
    /\ UNCHANGED <<o2n_fds, o2n_fds_info, heap, o2n_socket_delete_flag,
                   crashed, obs, pc, tick_i, tick_len, policy, shmvars>>

\* a connect in progress ends: established, or refused
ConnectDone ==
    \E fd \in OpenFds, how \in {"ok", "refused"} :
        /\ sock[fd].cstate = "pending"
        /\ Env([sock EXCEPT ![fd].cstate = how])

\* a remote process connects to a listening socket
Incoming ==
    \E fd \in OpenFds :
        /\ heap[fd].net_tag = NET_TCP_SERVER
        /\ Budget < MaxObjs
        /\ Env([sock EXCEPT ![fd].backlog = @ + 1])

\* remote processes connect to a listening socket faster than it accepts
IncomingBurst ==
    \E fd \in OpenFds :
        /\ heap[fd].net_tag = NET_TCP_SERVER
        /\ Len(heap) < MaxObjs
        /\ sock[fd].backlog < MaxBacklog
        /\ Env([sock EXCEPT ![fd].backlog = @ + 1])

Established(fd) ==
    /\ sock[fd].cstate = "ok" /\ sock[fd].peer = 0
    /\ ~sock[fd].eof /\ ~sock[fd].rst

\* a remote peer sends one framed message
Arrive(Payloads) ==
    \E fd \in OpenFds, bytes \in Payloads :
        /\ Established(fd)
        /\ sock[fd].fed < MaxSends
        /\ Len(sock[fd].rx) + LengthBytes + Len(bytes) <= WireCap
        /\ Env([sock EXCEPT ![fd].rx = @ \o WireBytes(Msg(bytes), FALSE),
                            ![fd].fed = @ + 1])

\* a datagram arrives at a UDP server socket
ArriveUdp(Payloads) ==
    \E fd \in OpenFds, bytes \in Payloads :
        /\ sock[fd].cstate = "udp"
        /\ sock[fd].fed < MaxSends
        /\ Env([sock EXCEPT ![fd].rx = Append(@, bytes), ![fd].fed = @ + 1])

\* a remote peer's bytes arrive as the network cuts them: the next k bytes
\* of `stream` (fed counts the bytes that have arrived)
ArriveBytes(stream) ==
    \E fd \in OpenFds :
        /\ Established(fd)
        /\ \E k \in 1..(Len(stream) - sock[fd].fed) :
             /\ Len(sock[fd].rx) + k <= WireCap
             /\ Env([sock EXCEPT
                       ![fd].rx = @ \o SubSeq(stream, sock[fd].fed + 1,
                                              sock[fd].fed + k),
                       ![fd].fed = @ + k])

\* a remote peer closes; on some platforms poll then reports POLLHUP
PeerClose ==
    \E fd \in OpenFds, hup \in BOOLEAN :
        /\ Established(fd)
        /\ Env([sock EXCEPT ![fd].eof = TRUE, ![fd].hup = hup])

\* the connection is reset
PeerReset ==
    \E fd \in OpenFds :
        /\ Established(fd)
        /\ Env([sock EXCEPT ![fd].rst = TRUE])

(***************************************************************************)
(* Specifications.                                                         *)
(***************************************************************************)
Start == [op |-> "init", id |-> 0, ret |-> O2_SUCCESS, log |-> <<>>,
          pre |-> <<>>]

\* after o2n_initialize: empty registry; owners that may close connections,
\* enqueue from connected() and fail a delivery
Init ==
    /\ o2n_fds = <<>>
    /\ o2n_fds_info = <<>>
    /\ heap = <<>>
    /\ o2n_socket_delete_flag = FALSE
    /\ sock = <<>>
    /\ crashed = FALSE
    /\ obs = <<>>
    /\ pc = "idle"
    /\ tick_i = 0
    /\ tick_len = 0
    /\ last = Start
    /\ policy = {"close", "enqueue", "fail"}
    /\ ShmQuiet

\* the messages of the registry runs: the empty message
Empty == {<<>>}

\* connections whose connect has not been seen to end
Connecting == {id \in Live : heap[id].net_tag = NET_TCP_CONNECTING}

\* the registry, o2n_recv and the kernel events of connecting sockets; the
\* application queues empty messages on connections still connecting, an
\* owner's connected() may send one
Next ==
    \/ ApiCreateTcpServer
    \/ ApiCreateTcpClient
    \/ ApiCloseSocket
    \/ ApiEnqueue(Connecting, Empty)
    \/ TickStart
    \/ SweepStep
    \/ SweepPass
    \/ Poll
    \/ Dispatch
    \/ TickEnd
    \/ ConnectDone
    \/ Incoming

Spec == Init /\ [][Next]_vars

(***************************************************************************)
(* One established framed connection inside the process: a listener        *)
(* (object 1) accepted connection 3 from client 2 and was then closed and  *)
(* swept, which moved 3 to index 0.  What 2 writes 3 reads, and back.      *)
(***************************************************************************)
Payloads == {<<>>, <<7>>, <<8, 9>>}

\* the application sends on the client end, 2; the owner of 3 receives
Client == {2}

Conn(net_tag_, index) == [Fields(net_tag_, index) EXCEPT !.owner = TRUE]

InitStream ==
    /\ o2n_fds = <<[fd |-> 3, events |-> {POLLIN}, revents |-> {}, own |-> 3],
                   [fd |-> 2, events |-> {POLLIN}, revents |-> {}, own |-> 2]>>
    /\ o2n_fds_info = <<3, 2>>
    /\ heap = <<Freed,
                Conn(NET_TCP_CLIENT, 1),
                Conn(NET_TCP_CONNECTION, 0)>>
    /\ o2n_socket_delete_flag = FALSE
    /\ sock = <<NewSock("none", 0),
                [NewSock("ok", 0) EXCEPT !.peer = 3],
                [NewSock("ok", 0) EXCEPT !.peer = 2]>>
    /\ crashed = FALSE
    /\ obs = <<[NewObs("listen") EXCEPT !.removed = 1],
               [NewObs("EINPROGRESS") EXCEPT !.connected = 1],
               NewObs("accept")>>
    /\ pc = "idle"
    /\ tick_i = 0
    /\ tick_len = 0
    /\ last = Start
    /\ policy = {"fail"}
    /\ ShmQuiet

NextStream ==
    \/ ApiEnqueue(Client, Payloads)
    \/ ApiSendTcp(Client, Payloads)
    \/ ApiSend(Client)
    \/ ApiCloseSocket
    \/ TickStart
    \/ SweepStep
    \/ SweepPass
    \/ Poll
    \/ Dispatch
    \/ TickEnd

SpecStream == InitStream /\ [][NextStream]_vars

(***************************************************************************)
(* One established client connection (object 1) over a transport that      *)
(* takes at most k bytes per write; one message of L bytes is enqueued.    *)
(***************************************************************************)
PayloadOf(L) == [j \in 1..L |-> 10 + j]

Lengths == {PayloadOf(L) : L \in 0..MaxLen}

InitK ==
    /\ \E k \in 1..MaxK : sock = <<NewSock("ok", k)>>
    /\ o2n_fds = <<[fd |-> 1, events |-> {POLLIN}, revents |-> {}, own |-> 1]>>
    /\ o2n_fds_info = <<1>>
    /\ heap = <<Conn(NET_TCP_CLIENT, 0)>>
    /\ o2n_socket_delete_flag = FALSE
    /\ crashed = FALSE
    /\ obs = <<[NewObs("EINPROGRESS") EXCEPT !.connected = 1]>>
    /\ pc = "idle"
    /\ tick_i = 0
    /\ tick_len = 0
    /\ last = Start
    /\ policy = {"count"}
    /\ ShmQuiet

NextK ==
    \/ Issued = 0 /\ ApiEnqueue({1}, Lengths)
    \/ TickStart
    \/ Poll
    \/ Dispatch
    \/ TickEnd

SpecK == InitK /\ [][NextK]_vars

(***************************************************************************)
(* Two established framed connections to remote processes: the accepted    *)
(* connection 3 at index 0 and the client 2 at index 1 (their listener,    *)
(* object 1, was closed and swept).  The peers send, close and reset; the  *)
(* owners may fail a delivery and may close the other connection.          *)
(***************************************************************************)
PeerPayloads == {<<>>, <<7>>}

InitPeer ==
    /\ o2n_fds = <<[fd |-> 3, events |-> {POLLIN}, revents |-> {}, own |-> 3],
                   [fd |-> 2, events |-> {POLLIN}, revents |-> {}, own |-> 2]>>
    /\ o2n_fds_info = <<3, 2>>
    /\ heap = <<Freed,
                Conn(NET_TCP_CLIENT, 1),
                Conn(NET_TCP_CONNECTION, 0)>>
    /\ o2n_socket_delete_flag = FALSE
    /\ sock = <<NewSock("none", 0), NewSock("ok", 0), NewSock("ok", 0)>>
    /\ crashed = FALSE
    /\ obs = <<[NewObs("listen") EXCEPT !.removed = 1],
               [NewObs("EINPROGRESS") EXCEPT !.connected = 1],
               NewObs("accept")>>
    /\ pc = "idle"
    /\ tick_i = 0
    /\ tick_len = 0
    /\ last = Start
    /\ policy = {"close", "fail"}
    /\ ShmQuiet

NextPeer ==
    \/ ApiCloseSocket
    \/ TickStart
    \/ SweepStep
    \/ SweepPass
    \/ Poll
    \/ Dispatch
    \/ TickEnd
    \/ Arrive(PeerPayloads)
    \/ PeerClose
    \/ PeerReset

SpecPeer == InitPeer /\ [][NextPeer]_vars

(***************************************************************************)
(* One client connection (object 1) whose connect is in progress, to a     *)
(* remote process: the application queues and sends while it connects.     *)
(***************************************************************************)
InitConnect ==
    /\ o2n_fds = <<[fd |-> 1, events |-> {POLLIN, POLLOUT}, revents |-> {},
                    own |-> 1]>>
    /\ o2n_fds_info = <<1>>
    /\ heap = <<Conn(NET_TCP_CONNECTING, 0)>>
    /\ o2n_socket_delete_flag = FALSE
    /\ sock = <<NewSock("pending", 0)>>
    /\ crashed = FALSE
    /\ obs = <<NewObs("EINPROGRESS")>>
    /\ pc = "idle"
    /\ tick_i = 0
    /\ tick_len = 0
    /\ last = Start
    /\ policy = {"enqueue"}
    /\ ShmQuiet

NextConnect ==
    \/ ApiEnqueue({1}, PeerPayloads)
    \/ ApiSendTcp({1}, PeerPayloads)
    \/ ApiSend({1})
    \/ ApiCloseSocket
    \/ TickStart
    \/ SweepStep
    \/ SweepPass
    \/ Poll
    \/ Dispatch
    \/ TickEnd
    \/ ConnectDone

SpecConnect == InitConnect /\ [][NextConnect]_vars

\* the steps of o2n_recv in these runs, its call included
ConnectTick ==
    \/ TickStart
    \/ SweepStep
    \/ SweepPass
    \/ Poll
    \/ Dispatch
    \/ TickEnd

\* the application's main loop calls o2n_recv again and again, and a call
\* that has begun runs to its return
FairConnect == SpecConnect /\ WF_vars(ConnectTick)

(***************************************************************************)
(* One established connection (object 2, at index 0 since its listener,    *)
(* object 1, was swept) to a remote process that sends, closes and resets. *)
(* It is a client or an accepted connection, and the application has left  *)
(* it framed or has set raw_flag.                                          *)
(***************************************************************************)
InitRecv ==
    /\ o2n_fds = <<[fd |-> 2, events |-> {POLLIN}, revents |-> {}, own |-> 2]>>
    /\ o2n_fds_info = <<2>>
    /\ \E net_tag_ \in {NET_TCP_CLIENT, NET_TCP_CONNECTION}, raw \in BOOLEAN :
         heap = <<Freed, [Conn(net_tag_, 0) EXCEPT !.raw_flag = raw]>>
    /\ o2n_socket_delete_flag = FALSE
    /\ sock = <<NewSock("closed", 0), NewSock("ok", 0)>>
    /\ crashed = FALSE
    /\ obs = <<[NewObs("listen") EXCEPT !.removed = 1], NewObs("established")>>
    /\ pc = "idle"
    /\ tick_i = 0
    /\ tick_len = 0
    /\ last = Start
    /\ policy = {"fail"}
    /\ ShmQuiet

NextRecv ==
    \/ ApiCloseSocket
    \/ Len(obs[2].dlv) <= MaxSends /\ TickStart
    \/ SweepStep
    \/ SweepPass
    \/ Poll
    \/ Dispatch
    \/ TickEnd
    \/ Arrive(Payloads)
    \/ PeerClose
    \/ PeerReset

SpecRecv == InitRecv /\ [][NextRecv]_vars

(***************************************************************************)
(* A server: the one object of the registry is a UDP server, or a TCP      *)
(* listener that remote processes connect to, with or without an owner.    *)
(* Datagrams and framed messages arrive; a delivery may fail.              *)
(***************************************************************************)
Datagrams == {<<>>, <<7>>, <<8, 9>>}

\* the world after o2n_initialize: nothing registered
Initialized ==
    [fds |-> <<>>, info |-> <<>>, heap |-> <<>>, flag |-> FALSE,
     sock |-> <<>>, crashed |-> FALSE, obs |-> <<>>, log |-> <<>>,
     ret |-> O2_SUCCESS, waits |-> FALSE,
     branch |-> <<>>]

Served(w, own) == [w EXCEPT !.heap[1].owner = own]

InitServe ==
    /\ \E own \in BOOLEAN :
       \E w \in {Served(x, own) : x \in create_udp_server(Initialized)
                                         \cup create_tcp_server(Initialized)} :
         /\ o2n_fds = w.fds
         /\ o2n_fds_info = w.info
         /\ heap = w.heap
         /\ sock = w.sock
         /\ obs = w.obs
    /\ o2n_socket_delete_flag = FALSE
    /\ crashed = FALSE
    /\ pc = "idle"
    /\ tick_i = 0
    /\ tick_len = 0
    /\ last = Start
    /\ policy = {"fail"}
    /\ ShmQuiet

NextServe ==
    \/ ApiCloseSocket
    \/ TickStart
    \/ SweepStep
    \/ SweepPass
    \/ Poll
    \/ Dispatch
    \/ TickEnd
    \/ IncomingBurst
    \/ ArriveUdp(Datagrams)
    \/ Arrive(PeerPayloads)
    \/ PeerClose

SpecServe == InitServe /\ [][NextServe]_vars

(***************************************************************************)
(* The UDP utility sends after o2n_initialize: the broadcast socket and    *)
(* the general sending socket exist, nothing is registered.                *)
(***************************************************************************)
InitUdp ==
    /\ o2n_fds = <<>>
    /\ o2n_fds_info = <<>>
    /\ heap = <<>>
    /\ o2n_socket_delete_flag = FALSE
    /\ sock = <<NewSock("udp", 0), NewSock("udp", 0)>>
    /\ crashed = FALSE
    /\ obs = <<>>
    /\ pc = "idle"
    /\ tick_i = 0
    /\ tick_len = 0
    /\ last = Start
    /\ policy = {}
    /\ ShmQuiet

NextUdp ==
    \/ ApiSendUdp(Datagrams)
    \/ ApiSendUdpLocal(Datagrams)
    \/ ApiSendBroadcast(Datagrams)

SpecUdp == InitUdp /\ [][NextUdp]_vars

(***************************************************************************)
(* One established raw client connection (object 1, raw_flag set by the    *)
(* application) over a transport that takes at most k bytes per write; one *)
(* message is enqueued, of up to RawMax + MaxOver bytes.                   *)
(***************************************************************************)
RawPayload(L) == [j \in 1..L |-> j % 256]

RawLengths == {RawPayload(L) : L \in {0, 1} \cup (RawMax..(RawMax + MaxOver))}

InitRaw ==
    /\ \E k \in 1..MaxK : sock = <<NewSock("ok", k)>>
    /\ o2n_fds = <<[fd |-> 1, events |-> {POLLIN}, revents |-> {}, own |-> 1]>>
    /\ o2n_fds_info = <<1>>
    /\ heap = <<[Conn(NET_TCP_CLIENT, 0) EXCEPT !.raw_flag = TRUE]>>
    /\ o2n_socket_delete_flag = FALSE
    /\ crashed = FALSE
    /\ obs = <<[NewObs("EINPROGRESS") EXCEPT !.connected = 1]>>
    /\ pc = "idle"
    /\ tick_i = 0
    /\ tick_len = 0
    /\ last = Start
    /\ policy = {"count"}
    /\ ShmQuiet

NextRaw ==
    \/ Issued = 0 /\ ApiEnqueue({1}, RawLengths)
    \/ TickStart
    \/ Poll
    \/ Dispatch
    \/ TickEnd

SpecRaw == InitRaw /\ [][NextRaw]_vars

(***************************************************************************)
(* One established framed connection (object 2 at index 0, its listener    *)
(* swept), a client or an accepted connection, on a platform whose         *)
(* accept() hands on O_NONBLOCK or on one where it does not.  The peer's   *)
(* two messages arrive cut into pieces; the peer may close.  FairTick adds *)
(* that o2n_recv, once called, takes its next step whenever it can.        *)
(***************************************************************************)
TickStream == WireBytes(Msg(<<7>>), FALSE) \o WireBytes(Msg(<<>>), FALSE)

InitTick ==
    /\ o2n_fds = <<[fd |-> 2, events |-> {POLLIN}, revents |-> {}, own |-> 2]>>
    /\ o2n_fds_info = <<2>>
    /\ \E how \in {"accept", "EINPROGRESS"} :
         /\ heap = <<Freed, Conn(IF how = "accept" THEN NET_TCP_CONNECTION
                                 ELSE NET_TCP_CLIENT, 0)>>
         /\ obs = <<[NewObs("listen") EXCEPT !.removed = 1], NewObs(how)>>
    /\ o2n_socket_delete_flag = FALSE
    /\ sock = <<NewSock("closed", 0), NewSock("ok", 0)>>
    /\ crashed = FALSE
    /\ pc = "idle"
    /\ tick_i = 0
    /\ tick_len = 0
    /\ last = Start
    /\ policy \in {{}, {"blocking_accept"}}
    /\ ShmQuiet

\* the steps of o2n_recv once it has been called
TickSteps ==
    \/ SweepStep
    \/ SweepPass
    \/ Poll
    \/ Dispatch
    \/ RecvWakes
    \/ TickEnd

NextTick ==
    \/ TickStart
    \/ TickSteps
    \/ ArriveBytes(TickStream)
    \/ PeerClose

SpecTick == InitTick /\ [][NextTick]_vars

FairTick == SpecTick /\ WF_vars(TickSteps)

(***************************************************************************)
(* A process after a failed connect: it made connection 1 (a listener, or a *)
(* client whose connect is in progress), then a create_tcp_client whose    *)
(* connect was refused (object 2, deleted by cleanup in a build without    *)
(* assertions), then server 3.  The application still holds 1 and 3; it    *)
(* queues messages and closes connections, datagrams arrive, o2n_recv      *)
(* runs.                                                                   *)
(***************************************************************************)
AfterFailedConnect ==
    UNION {UNION {create_tcp_server(w2) \cup create_udp_server(w2)
                  : w2 \in {x \in create_tcp_client(w1, "ECONNREFUSED") :
                              ~x.crashed}}
           : w1 \in create_tcp_server(Initialized)
                     \cup create_tcp_client(Initialized, "EINPROGRESS")}

InitOrphan ==
    /\ \E own \in BOOLEAN : \E w \in AfterFailedConnect :
         /\ o2n_fds = w.fds
         /\ o2n_fds_info = w.info
         /\ heap = [w.heap EXCEPT ![1].owner = own, ![3].owner = own]
         /\ o2n_socket_delete_flag = w.flag
         /\ sock = w.sock
         /\ obs = w.obs
    /\ crashed = FALSE
    /\ pc = "idle"
    /\ tick_i = 0
    /\ tick_len = 0
    /\ last = Start
    /\ policy = {"fail"}
    /\ ShmQuiet

NextOrphan ==
    \/ ApiCloseSocket
    \/ ApiEnqueue(Connecting, Empty)
    \/ TickStart
    \/ SweepStep
    \/ SweepPass
    \/ Poll
    \/ Dispatch
    \/ TickEnd
    \/ ArriveUdp(Datagrams)

SpecOrphan == InitOrphan /\ [][NextOrphan]_vars

(***************************************************************************)
(* The shared memory bridge (src/src/sharedmem.cpp).  One shared memory    *)
(* thread sends messages with o2sm_message_send, which pushes them on the  *)
(* lock-free list o2sm_incoming; the O2 thread runs bridge_poll, which     *)
(* grabs the whole list, reverses it and hands each message to             *)
(* o2_message_send.  A message is its index in sm_msgs; 0 is NULL.  The    *)
(* two threads' steps interleave freely.                                   *)
(***************************************************************************)
\* faulty variant: the grabbed list is walked as it was grabbed
get_messages_in_grab_order(mem, head) ==
    [mem |-> mem, head |-> 0, msgs |-> head]

\* static O2message_ptr get_messages_reversed(O2queue *head): the grab, and
\* the loop that turns the pointers round
get_messages_reversed(mem, head) ==
    LET RECURSIVE loop(_, _, _)
        loop(m, all, msgs) ==
            IF all = 0 THEN [mem |-> m, head |-> 0, msgs |-> msgs]
            ELSE loop([m EXCEPT ![all].next = msgs], m[all].next, all)
    IN  loop(mem, head, 0)

\* O2err o2sm_message_send(O2message_ptr msg) is called with a new message
SmSend ==
    /\ sm_thread.pc = "idle"
    /\ Len(sm_msgs) < MaxMsgs
    /\ sm_msgs' = Append(sm_msgs, [next |-> 0])
    /\ sm_thread' = [pc |-> "push", msg |-> Len(sm_msgs) + 1, old |-> 0]
    /\ UNCHANGED <<netvars, o2sm_incoming, bridge, o2_sent, outvars>>

\* O2queue::push, first half: read the head and link the message to it
SmPushLoad ==
    /\ sm_thread.pc = "push"
    /\ sm_msgs' = [sm_msgs EXCEPT ![sm_thread.msg].next = o2sm_incoming]
    /\ sm_thread' = [sm_thread EXCEPT !.pc = "cas", !.old = o2sm_incoming]
    /\ UNCHANGED <<netvars, o2sm_incoming, bridge, o2_sent, outvars>>

\* O2queue::push, second half: the message becomes the head if the head is
\* still what was read; if not, once more; then o2sm_message_send returns
SmPushCas ==
    /\ sm_thread.pc = "cas"
    /\ IF o2sm_incoming = sm_thread.old
       THEN /\ o2sm_incoming' = sm_thread.msg
            /\ sm_thread' = [pc |-> "idle", msg |-> 0, old |-> 0]
       ELSE /\ sm_thread' = [sm_thread EXCEPT !.pc = "push", !.old = 0]
            /\ UNCHANGED o2sm_incoming
    /\ UNCHANGED <<netvars, sm_msgs, bridge, o2_sent, outvars>>

\* bridge_poll, lines 229-230
BridgePoll ==
    /\ bridge.pc = "idle"
    /\ LET r == get_messages_reversed(sm_msgs, o2sm_incoming)
       IN  /\ o2sm_incoming' = r.head
           /\ sm_msgs' = r.mem
           /\ bridge' = [bridge EXCEPT !.pc = "loop", !.msgs = r.msgs,
                                       !.rslt = O2_SUCCESS,
                                       !.calls = Len(o2_sent)]
    /\ UNCHANGED <<netvars, sm_thread, o2_sent, outvars>>

\* the result bridge_poll keeps after a send returned err (line 238)
Kept(rslt, err) == IF rslt # O2_SUCCESS THEN err ELSE rslt

\* one turn of the while loop of bridge_poll; o2_message_send takes the
\* message and returns success or an error
BridgeSend ==
    /\ bridge.pc = "loop" /\ bridge.msgs # 0
    /\ \E err \in {O2_SUCCESS, O2_FAIL} :
         /\ o2_sent' = Append(o2_sent, [msg |-> bridge.msgs, err |-> err])
         /\ bridge' = [bridge EXCEPT !.msgs = sm_msgs[bridge.msgs].next,
                                     !.rslt = Kept(@, err)]
    /\ sm_msgs' = [sm_msgs EXCEPT ![bridge.msgs].next = 0]
    /\ UNCHANGED <<netvars, o2sm_incoming, sm_thread, outvars>>

\* bridge_poll returns rslt
BridgeReturn ==
    /\ bridge.pc = "loop" /\ bridge.msgs = 0
    /\ bridge' = [bridge EXCEPT !.pc = "idle", !.ret = bridge.rslt]
    /\ UNCHANGED <<netvars, o2sm_incoming, sm_msgs, sm_thread, o2_sent, outvars>>

NextShm ==
    \/ SmSend
    \/ SmPushLoad
    \/ SmPushCas
    \/ BridgePoll
    \/ BridgeSend
    \/ BridgeReturn

SpecShm == Init /\ [][NextShm]_vars

(***************************************************************************)
(* O2sm_info::poll_outgoing.  The O2 process pushes messages, with or      *)
(* without a timestamp, on the outgoing queue; the shared memory thread    *)
(* calls o2sm_poll again and again.  A message is [next, timestamp,        *)
(* freed]; a read of a freed message is undefined: the thread stops       *)
(* (pc "fault") or goes on with what the memory still holds.               *)
(***************************************************************************)
\* the timestamps of the messages, 0 for none, and the clock readings
Stamps == {0, 1, 3}
Nows == {-1, 2}

\* the messages a walk along the next pointers from m comes by
SmList(mem, m) ==
    LET RECURSIVE walk(_, _)
        walk(x, seen) ==
            IF x = 0 \/ x \in seen THEN seen
            ELSE walk(mem[x].next, seen \cup {x})
    IN  walk(m, {})

\* O2sm_info::send, line 280: outgoing.push(msg)
OutPush ==
    /\ Len(out_mem) < MaxMsgs
    /\ \E ts \in Stamps :
         out_mem' = Append(out_mem, [next |-> outgoing, timestamp |-> ts,
                                     freed |-> FALSE])
    /\ outgoing' = Len(out_mem) + 1
    /\ UNCHANGED <<netvars, o2sm_incoming, sm_msgs, sm_thread, bridge,
                   o2_sent, schedule_head, schedule_tail, sm_poll,
                   o2sm_dispatched>>

\* lines 642-647: the clock is read, the queue grabbed and turned round
PollGrab ==
    /\ sm_poll.pc = "idle"
    /\ \E now \in Nows :
         LET r == get_messages_reversed(out_mem, outgoing)
         IN  /\ out_mem' = r.mem
             /\ outgoing' = r.head
             /\ sm_poll' = [pc |-> "sort", msgs |-> r.msgs, prev |-> 0,
                            now |-> now]
    /\ UNCHANGED <<netvars, o2sm_incoming, sm_msgs, sm_thread, bridge,
                   o2_sent, schedule_head, schedule_tail, o2sm_dispatched>>

\* *prevptr, where prevptr is &msgs (prev = 0) or &prev->next
AtPrev(mem, poll) == IF poll.prev = 0 THEN poll.msgs ELSE mem[poll.prev].next

\* static void append_to_schedule(O2message_ptr msg): the memory and the
\* two pointers after it
append_to_schedule(mem, head, tail, msg) ==
    IF head = 0
    THEN [mem |-> mem, head |-> msg, tail |-> msg]
    ELSE [mem |-> [mem EXCEPT ![tail].next = msg, ![msg].next = 0],
          head |-> head, tail |-> msg]

\* one turn of the loop of lines 648-656, or its end
PollSort ==
    /\ sm_poll.pc = "sort"
    /\ LET cur == AtPrev(out_mem, sm_poll)
       IN  IF cur = 0
           THEN /\ sm_poll' = [sm_poll EXCEPT !.pc = "schedule"]
                /\ UNCHANGED <<out_mem, schedule_head, schedule_tail>>
           ELSE IF out_mem[cur].timestamp # 0
           THEN LET next == out_mem[cur].next
                    r == append_to_schedule(out_mem, schedule_head,
                                            schedule_tail, cur)
                IN  /\ schedule_head' = r.head
                    /\ schedule_tail' = r.tail
                    /\ IF sm_poll.prev = 0
                       THEN /\ sm_poll' = [sm_poll EXCEPT !.msgs = next]
                            /\ out_mem' = r.mem
                       ELSE /\ out_mem' = [r.mem EXCEPT
                                             ![sm_poll.prev].next = next]
                            /\ UNCHANGED sm_poll
           ELSE /\ sm_poll' = [sm_poll EXCEPT !.prev = cur]
                /\ UNCHANGED <<out_mem, schedule_head, schedule_tail>>
    /\ UNCHANGED <<netvars, o2sm_incoming, sm_msgs, sm_thread, bridge,
                   o2_sent, outgoing, o2sm_dispatched>>

\* o2sm_dispatch(msg), which ends with O2_FREE(msg), or O2_FREE(msg) alone
Handed(how, msg, list) ==
    /\ o2sm_dispatched' = Append(o2sm_dispatched,
                                 [e |-> how, msg |-> msg, list |-> list,
                                  stale |-> out_mem[msg].freed])
    /\ out_mem' = [out_mem EXCEPT ![msg].freed = TRUE]

\* one turn of the loops of lines 658-670 over the schedule, or their end
PollSchedule ==
    /\ sm_poll.pc = "schedule"
    /\ IF schedule_head = 0
       THEN /\ sm_poll' = [sm_poll EXCEPT !.pc = "immediate"]
            /\ UNCHANGED <<out_mem, schedule_head, o2sm_dispatched>>
       ELSE \/ /\ out_mem[schedule_head].freed
               /\ sm_poll' = [sm_poll EXCEPT !.pc = "fault"]
               /\ UNCHANGED <<out_mem, schedule_head, o2sm_dispatched>>
            \/ /\ sm_poll.now < 0
               /\ Handed("free", schedule_head, "schedule")
               /\ schedule_head' = out_mem[schedule_head].next
               /\ UNCHANGED sm_poll
            \/ /\ sm_poll.now >= 0
               /\ out_mem[schedule_head].timestamp < sm_poll.now
               /\ Handed("dispatch", schedule_head, "schedule")
               /\ schedule_head' = out_mem[schedule_head].next
               /\ UNCHANGED sm_poll
            \/ /\ sm_poll.now >= 0
               /\ out_mem[schedule_head].timestamp >= sm_poll.now
               /\ sm_poll' = [sm_poll EXCEPT !.pc = "immediate"]
               /\ UNCHANGED <<out_mem, schedule_head, o2sm_dispatched>>
    /\ UNCHANGED <<netvars, o2sm_incoming, sm_msgs, sm_thread, bridge,
                   o2_sent, outgoing, schedule_tail>>

\* one turn of the loop of lines 671-675, or the return of poll_outgoing
PollImmediate ==
    /\ sm_poll.pc = "immediate"
    /\ IF sm_poll.msgs = 0
       THEN /\ sm_poll' = [sm_poll EXCEPT !.pc = "idle", !.prev = 0]
            /\ UNCHANGED <<out_mem, o2sm_dispatched>>
       ELSE \/ /\ out_mem[sm_poll.msgs].freed
               /\ sm_poll' = [sm_poll EXCEPT !.pc = "fault"]
               /\ UNCHANGED <<out_mem, o2sm_dispatched>>
            \/ /\ Handed("dispatch", sm_poll.msgs, "immediate")
               /\ sm_poll' = [sm_poll EXCEPT
                                !.msgs = out_mem[sm_poll.msgs].next]
    /\ UNCHANGED <<netvars, o2sm_incoming, sm_msgs, sm_thread, bridge,
                   o2_sent, outgoing, schedule_head, schedule_tail>>

NextOut ==
    \/ OutPush
    \/ PollGrab
    \/ PollSort
    \/ PollSchedule
    \/ PollImmediate

SpecOut == Init /\ [][NextOut]_vars

(***************************************************************************)
(* Properties.  Helpers first: what the observer reads off a state.        *)
(***************************************************************************)
IsPrefix(a, b) == Len(a) <= Len(b) /\ a = SubSeq(b, 1, Len(a))

Events(kind) == {k \in 1..Len(last.log) : last.log[k].e = kind}

\* both ends of the connection 2 -> 3 are open
BothOpen ==
    /\ heap[2].net_tag = NET_TCP_CLIENT
    /\ heap[3].net_tag = NET_TCP_CONNECTION

\* the messages enqueued on 2, as the owner of 3 should get them
Expected == [k \in 1..Len(obs[2].enq) |-> Msg(obs[2].enq[k])]

\* nothing is waiting in the queue of 2, in the kernel, or half-read in 3
Drained ==
    /\ heap[2].out_message = <<>>
    /\ sock[3].rx = <<>>
    /\ heap[3].in_length_got = 0

\* C1: on the established framed connection 2 -> 3 the owner of 3 is
\* delivered the messages enqueued on 2 in enqueue order, each with the same
\* length and bytes, none twice; and while both ends are open, once nothing
\* is left in the queue, the kernel or the receiver, all have been delivered
C1_FramedFifo ==
    ~crashed =>
        /\ IsPrefix(obs[3].dlv, Expected)
        /\ (BothOpen /\ Drained => obs[3].dlv = Expected)

\* two 6-byte messages, more than the socket buffer holds, both delivered
C1_Witness ==
    /\ ~crashed /\ BothOpen /\ Drained
    /\ obs[2].enq = <<<<8, 9>>, <<8, 9>>>>
    /\ obs[3].dlv = Expected

Ceil(a, b) == (a + b - 1) \div b

\* C2: on a transport taking at most k bytes per write, the 4 + L wire bytes
\* of the one message enqueued on connection 1 are written once each and in
\* order: after the write of enqueue and w write-ready events exactly
\* min(4 + L, k * (w + 1)) of them are written, the saved offset is that
\* count while the message is queued, and no more than ceil((4 + L) / k)
\* write-ready events are ever needed
C2_SegmentedWrite ==
    obs[1].enq # <<>> /\ ~crashed =>
        LET all == WireBytes(Msg(obs[1].enq[1]), FALSE)
            k == sock[1].seg
            written == sock[1].tx
        IN  /\ IsPrefix(written, all)
            /\ Len(written) = Min(Len(all), k * (obs[1].wev + 1))
            /\ obs[1].wev <= Ceil(Len(all), k)
            /\ (obs[1].wev >= Ceil(Len(all), k) - 1 => written = all)
            /\ IF written = all
               THEN heap[1].out_message = <<>> /\ heap[1].out_msg_sent = 0
               ELSE /\ heap[1].out_message = <<Msg(obs[1].enq[1])>>
                    /\ heap[1].out_msg_sent = Len(written)

\* 7 wire bytes, 2 per write: written in full with the third write-ready event
C2_Witness ==
    /\ obs[1].enq = <<PayloadOf(3)>>
    /\ sock[1].seg = 2
    /\ obs[1].wev = 3
    /\ sock[1].tx = WireBytes(Msg(PayloadOf(3)), FALSE)
    /\ heap[1].out_message = <<>>

\* the wire bytes of a sequence of messages, framed
RECURSIVE Frames(_)
Frames(msgs) ==
    IF msgs = <<>> THEN <<>>
    ELSE WireBytes(Head(msgs), FALSE) \o Frames(Tail(msgs))

\* the wire bytes of the unit h is reassembling, as far as it has read them
Partial(h) ==
    IF h.in_length_got < LengthBytes
    THEN [k \in 1..h.in_length_got |-> MemByte(h.in_length, k - 1)]
    ELSE [k \in 1..LengthBytes |-> MemByte(htonl(h.in_length), k - 1)]
             \o h.in_message[1].payload

\* the wire bytes h has still to write
Unsent(h) ==
    LET all == Frames(h.out_message)
    IN  SubSeq(all, h.out_msg_sent + 1, Len(all))

\* a read event of the last operation that failed with a retryable errno
WouldBlock(e) == e.n < 0 /\ ~TERMINATING_SOCKET_ERROR(e.errno)

\* C3: however the wire bytes are cut into reads, what the receiver 3 has
\* delivered, is reassembling and has yet to read is byte for byte what was
\* framed for it, each delivered message has its declared length, and a
\* read that would block leaves the receiving object as it was (header
\* count, length, body count, buffer) and delivers nothing
C3_Reassembly ==
    ~crashed =>
        /\ \A k \in 1..Len(obs[3].dlv) :
             obs[3].dlv[k].length = Len(obs[3].dlv[k].payload)
        /\ BothOpen =>
             Frames(obs[3].dlv) \o Partial(heap[3]) \o sock[3].rx
                 \o Unsent(heap[2]) = Frames(Expected)
        /\ \A k \in Events("read") :
             WouldBlock(last.log[k]) =>
                /\ heap[last.log[k].id] = last.log[k].h
                /\ Events("deliver") = {}
                /\ Events("close") = {}

\* after an empty message was delivered, the header of a 2-byte message is
\* read in full and the read of its body would block
C3_Witness ==
    /\ ~crashed /\ BothOpen
    /\ obs[3].dlv = <<Msg(<<>>)>>
    /\ \E k \in Events("read") :
         /\ last.log[k].errno = EAGAIN
         /\ heap[3].in_length_got = LengthBytes
         /\ heap[3].in_length = 2
         /\ heap[3].in_msg_got = 0

\* a write of the last operation that failed with a non-retryable errno
Fatal(e) == e.err < 0 /\ TERMINATING_SOCKET_ERROR(e.errno)

\* C7: after a write failed with a non-retryable errno the connection is
\* CLOSED and marked for deletion, its queue is empty, every message that
\* was queued has been freed, the send returned O2_FAIL and wrote no more;
\* and no send writes on a CLOSED connection: it returns O2_FAIL
C7_FatalWriteCloses ==
    ~crashed =>
        /\ \A k \in Events("write") :
             LET e == last.log[k]
             IN  /\ e.tag # NET_INFO_CLOSED
                 /\ Fatal(e) =>
                      /\ heap[e.id].net_tag = NET_INFO_CLOSED
                      /\ heap[e.id].delete_me
                      /\ heap[e.id].out_message = <<>>
                      /\ LET held == e.h.in_message \o e.h.out_message
                         IN  /\ k + Len(held) + 1 \in Events("close")
                             /\ last.log[k + Len(held) + 1].id = e.id
                             /\ \A j \in 1..Len(held) :
                                  last.log[k + j] = [e |-> "free",
                                                     m |-> held[j]]
                      /\ \A j \in Events("write") : j <= k
                      /\ \E j \in Events("send_ret") :
                           /\ j > k
                           /\ last.log[j].id = e.id
                           /\ last.log[j].ret = O2_FAIL
        /\ \A k \in Events("send_ret") :
             last.log[k].h.net_tag = NET_INFO_CLOSED =>
                 last.log[k].ret = O2_FAIL

\* the receiving end was closed while two messages were queued on 2: the
\* next write fails with EPIPE
C7_Witness ==
    /\ ~crashed
    /\ \E k \in Events("write") :
         /\ Fatal(last.log[k])
         /\ last.log[k].id = 2
         /\ Len(last.log[k].h.out_message) = 2
    /\ heap[3].net_tag = NET_INFO_CLOSED

\* the events asked of poll for the descriptor of connection id
Interest(id) == At(o2n_fds, heap[id].fds_index).events

\* C8: when a write of a non-blocking send fails with EAGAIN or EINTR, the
\* send returns O2_BLOCKED at once and the connection object is as it was
\* before the write (queue, order, head offset, state); the one change is
\* POLLOUT added to the events asked of poll for its descriptor
C8_BlockedKeepsState ==
    ~crashed =>
        \A k \in Events("write") :
            LET e == last.log[k]
            IN  e.err < 0 /\ ~TERMINATING_SOCKET_ERROR(e.errno) /\ ~e.block =>
                  /\ last.log[k + 1] =
                        [e |-> "send_ret", id |-> e.id, ret |-> O2_BLOCKED,
                         h |-> e.h, events |-> e.events \cup {POLLOUT}]
                  /\ k + 1 = Len(last.log)
                  /\ heap[e.id] = e.h
                  /\ Interest(e.id) = e.events \cup {POLLOUT}

\* the socket buffer is full of the first message, unread: the write of
\* the second gets EAGAIN, and only now is POLLOUT asked for
C8_Witness ==
    /\ ~crashed
    /\ \E k \in Events("write") :
         /\ last.log[k].errno = EAGAIN
         /\ ~last.log[k].block
         /\ POLLOUT \notin last.log[k].events
    /\ heap[2].out_message = <<Msg(<<8, 9>>)>>
    /\ heap[2].out_msg_sent = 0
    /\ POLLOUT \in Interest(2)

\* C4: when connect fails in create_tcp_client with an error other than
\* EINPROGRESS, the call returns NULL and both registry arrays are what
\* they were before the call
C4_FailedConnectRestores ==
    last.op = "create_tcp_client" /\ last.ret = "NULL" =>
        /\ ~crashed
        /\ o2n_fds = last.pre.fds
        /\ o2n_fds_info = last.pre.info

\* the build without asserts: the call returns NULL and the registry has
\* lost the entry of another connection
C4_Witness ==
    /\ last.op = "create_tcp_client" /\ last.ret = "NULL"
    /\ ~crashed
    /\ Len(last.pre.info) = 1
    /\ o2n_fds_info = <<>>
    /\ ~heap[last.pre.info[1]].freed

\* connections that connect() completed at once and that have since been
\* through one whole call of o2n_recv, still open and with their owner
TickedAtOnce ==
    {id \in Live : /\ obs[id].how = "connected"
                   /\ obs[id].ticks = 2
                   /\ heap[id].owner
                   /\ heap[id].net_tag = NET_TCP_CLIENT}

\* C9: a connection that connect() completed without blocking is
\* NET_TCP_CLIENT when create_tcp_client returns, and by the end of the next
\* call of o2n_recv its owner's connected() has been called
C9_ConnectedOnNextTick ==
    /\ last.op = "create_tcp_client" /\ last.ret = "info" /\ ~crashed
          /\ obs[last.id].how = "connected"
       => heap[last.id].net_tag = NET_TCP_CLIENT
    /\ \A id \in TickedAtOnce : obs[id].connected >= 1

\* such a connection after its first whole o2n_recv: POLLOUT was never asked
\* for, and connected() has not been called
C9_Witness ==
    \E id \in TickedAtOnce :
        /\ obs[id].connected = 0
        /\ pc = "idle" /\ ~crashed
        /\ Interest(id) = {POLLIN}

\* the removal made by the last step of the sweep
Removal == last.log[CHOOSE k \in Events("delete") : TRUE]

\* C5: when the sweep deletes the connection at a valid index i of a
\* registry of n entries, right after the removal both arrays have n - 1
\* entries, the entry that was last is at index i (if i was not the last
\* index) and the object it belongs to has fds_index = i, and every other
\* entry is where it was, with its pollfd and its fds_index
C5_Compaction ==
    last.op = "delete" /\ ~crashed /\ Removal.i < Len(last.pre.info) =>
        LET i == Removal.i
            n == Len(last.pre.info)
        IN  /\ last.pre.info[i + 1] = last.id
            /\ Len(Removal.info) = n - 1
            /\ Len(Removal.fds) = n - 1
            /\ o2n_fds_info = Removal.info
            /\ i < n - 1 =>
                 /\ Removal.info[i + 1] = last.pre.info[n]
                 /\ Removal.fds[i + 1] = last.pre.fds[n]
                 /\ heap[last.pre.info[n]].fds_index = i
            /\ \A k \in 1..(n - 1) :
                 k # i + 1 =>
                    /\ Removal.info[k] = last.pre.info[k]
                    /\ Removal.fds[k] = last.pre.fds[k]
                    /\ heap[last.pre.info[k]].fds_index = k - 1

\* the first of two entries is deleted: the second moves to index 0
C5_Witness ==
    /\ last.op = "delete" /\ ~crashed
    /\ Removal.i = 0
    /\ Len(last.pre.info) = 2
    /\ o2n_fds_info = <<last.pre.info[2]>>
    /\ heap[last.pre.info[2]].fds_index = 0

\* registered connections that are marked for deletion
Pending == {id \in Registered(World) : heap[id].delete_me}

\* C6: when o2n_free_deleted_sockets returns, no connection of the registry
\* is marked for deletion and the delete flag is clear, also when a remove()
\* hook of the sweep marked a connection the pass had already gone by
C6_SweepUntilStable ==
    last.op = "swept" /\ ~crashed =>
        /\ Pending = {}
        /\ ~o2n_socket_delete_flag

\* a remove() hook closed another connection during the sweep, a further
\* pass was made, and the sweep has returned leaving an empty registry
C6_Witness ==
    /\ last.op = "swept" /\ ~crashed
    /\ last.pre.cascade
    /\ last.pre.passes >= 1
    /\ Len(heap) = 2
    /\ o2n_fds_info = <<>>

\* the last step of o2n_recv handled POLLOUT for its descriptor
WriteReady ==
    /\ POLLOUT \in last.pre.revents
    /\ POLLERR \notin last.pre.revents
    /\ POLLHUP \notin last.pre.revents

\* C10: when o2n_recv handles POLLOUT for a NET_TCP_CONNECTING connection,
\* it first sets the tag to NET_TCP_CLIENT, then calls the owner's
\* connected(), and writes only after that; and a connecting socket whose
\* connect has failed keeps its tag: no transition, no connected(), no write
C10_ConnectThenDrain ==
    last.op = "dispatch" /\ ~crashed
          /\ last.pre.tag = NET_TCP_CONNECTING =>
        /\ last.pre.refused =>
             /\ heap[last.id].net_tag = NET_TCP_CONNECTING
             /\ last.log = <<>>
        /\ WriteReady =>
             /\ last.log[1] = [e |-> "tag", id |-> last.id, by |-> "o2n_recv",
                               to |-> NET_TCP_CLIENT]
             /\ heap[last.id].owner =>
                  last.log[2] = [e |-> "connected", id |-> last.id,
                                 tag |-> NET_TCP_CLIENT]
             /\ \A k \in Events("write") : last.log[k].tag # NET_TCP_CONNECTING
        /\ ~WriteReady => Events("tag") = {} /\ Events("connected") = {}

\* a message was queued while connecting; on POLLOUT the tag changes, the
\* owner is told, and then the message is written
C10_Witness ==
    /\ last.op = "dispatch" /\ ~crashed
    /\ last.pre.tag = NET_TCP_CONNECTING
    /\ Len(last.log) >= 3
    /\ last.log[1].e = "tag"
    /\ last.log[2].e = "connected"
    /\ last.log[3].e = "write"
    /\ last.log[3].h.out_message # <<>>
    /\ last.log[3].err = LengthBytes
    /\ heap[last.id].net_tag = NET_TCP_CLIENT

\* C11: NET_INFO_CLOSED is terminal: no step (send, enqueue, close, sweep or a
\* branch of the dispatch loop) changes the tag of a CLOSED connection, and
\* a close_socket on a CLOSED connection changes nothing but the two
\* deletion flags: the object, the registry and the sockets stay as they are
C11_ClosedIsTerminal ==
    [][\A id \in Live :
          heap[id].net_tag = NET_INFO_CLOSED /\ ~crashed' =>
             /\ heap'[id].net_tag = NET_INFO_CLOSED
             /\ last'.op = "close_socket" /\ last'.id = id =>
                  /\ heap'[id] = [heap[id] EXCEPT !.delete_me = TRUE]
                  /\ o2n_fds' = o2n_fds
                  /\ sock' = sock
                  /\ o2n_socket_delete_flag'
                  /\ Events("free")' = {}]_vars

\* a message was enqueued on the CLOSED connection 2, and closing 2 again
\* has freed it
C11_Witness ==
    /\ last.op = "close_socket" /\ last.id = 2 /\ ~crashed
    /\ At(last.pre.fds, heap[2].fds_index).fd = INVALID_SOCKET
    /\ Events("free") # {}
    /\ heap[2].net_tag = NET_INFO_CLOSED
    /\ heap[2].out_message = <<>>

\* C12: every inbound buffer the receive step allocates is consumed exactly
\* once, by deliver() or by a free: no operation drops the only pointer to
\* a buffer it neither delivered nor freed, and none frees a buffer it
\* delivered
C12_InboundConsumedOnce ==
    ~crashed =>
        /\ Events("leak") = {}
        /\ \A k \in Events("deliver") : \A j \in Events("free") :
              j > k => last.log[j].m # last.log[k].m

\* the header of a 2-byte message was read, then the peer closed: the read
\* of the body returns 0 and the buffer is dropped, neither delivered nor
\* freed
C12_Witness ==
    /\ ~crashed /\ last.op = "dispatch" /\ last.id = 3
    /\ \E k \in Events("read") :
         /\ last.log[k].n = 0
         /\ last.log[k].h.in_message = <<o2n_message_new(2)>>
         /\ k + 1 \in Events("leak")
    /\ Events("free") = {} /\ Events("deliver") = {}
    /\ heap[3].in_message = <<>>
    /\ heap[3].net_tag = NET_INFO_CLOSED

\* C13: in every reachable state a connection that is NET_INFO_CLOSED and
\* not yet swept has an empty outbound queue and no inbound message in
\* assembly
C13_ClosedHoldsNothing ==
    ~crashed =>
        \A id \in Live :
            heap[id].net_tag = NET_INFO_CLOSED =>
                /\ heap[id].out_message = <<>>
                /\ heap[id].in_message = <<>>

\* enqueue on the CLOSED connection 2: send returned O2_FAIL and the message
\* stays queued
C13_Witness ==
    /\ ~crashed /\ last.op = "enqueue" /\ last.id = 2
    /\ last.log = <<[e |-> "send_ret", id |-> 2, ret |-> O2_FAIL,
                     h |-> heap[2], events |-> {POLLIN}]>>
    /\ heap[2].net_tag = NET_INFO_CLOSED
    /\ heap[2].delete_me
    /\ heap[2].out_message = <<Msg(<<7>>)>>

\* C14: a send with block = true returns O2_SUCCESS only with the outbound
\* queue empty, and returns an error only with the connection CLOSED and
\* its queue discarded, also when the connection was NET_TCP_CONNECTING and
\* the wait for writability ended with a socket error; so when send_tcp
\* returns an error (having dropped the new message) the connection is
\* CLOSED with an empty queue
C14_BlockingSendAllOrClosed ==
    ~crashed =>
        /\ last.op = "send" /\ last.pre.block =>
              IF last.ret = O2_SUCCESS
              THEN heap[last.id].out_message = <<>>
              ELSE /\ heap[last.id].net_tag = NET_INFO_CLOSED
                   /\ heap[last.id].out_message = <<>>
        /\ last.op = "send_tcp" /\ last.ret # O2_SUCCESS =>
              /\ heap[last.id].net_tag = NET_INFO_CLOSED
              /\ heap[last.id].out_message = <<>>

\* a message is queued on the connecting client, send_tcp waits for the
\* connect, which is refused: the new message is freed, the error returned,
\* and the connection is still NET_TCP_CONNECTING with the first message
\* queued
C14_Witness ==
    /\ ~crashed /\ last.op = "send_tcp" /\ last.id = 1
    /\ last.ret = O2_SOCKET_ERROR
    /\ Len(last.log) = 2
    /\ last.log[1].e = "send_ret" /\ last.log[1].ret = O2_SOCKET_ERROR
    /\ last.log[2] = [e |-> "free", m |-> Msg(<<7>>)]
    /\ heap[1].net_tag = NET_TCP_CONNECTING
    /\ heap[1].out_message = <<Msg(<<>>)>>
    /\ ~heap[1].delete_me

\* the reads of the last operation that returned zero bytes
ZeroReads == {k \in Events("read") : last.log[k].n = 0}

\* C15: when a read on a client or accepted TCP connection, framed or raw,
\* returns zero bytes, the connection is NET_INFO_CLOSED when that step of
\* o2n_recv ends and the step has delivered no message to the owner
C15_ZeroReadCloses ==
    ~crashed =>
        \A k \in ZeroReads :
            /\ heap[last.log[k].id].net_tag = NET_INFO_CLOSED
            /\ Events("deliver") = {}

\* the peer of a raw client closed: the read returns 0, an empty message
\* is delivered, and the connection stays open
C15_Witness ==
    /\ ~crashed /\ last.op = "dispatch" /\ last.id = 2
    /\ Len(last.log) = 2
    /\ last.log[1].e = "read" /\ last.log[1].n = 0
    /\ last.log[1].h.raw_flag
    /\ last.log[2] = [e |-> "deliver", id |-> 2,
                      m |-> [length |-> 0, payload |-> <<>>],
                      ret |-> O2_SUCCESS]
    /\ last.pre.tag = NET_TCP_CLIENT
    /\ heap[2].net_tag = NET_TCP_CLIENT
    /\ ~heap[2].delete_me
    /\ sock[2].eof

\* the deliveries of an assembled message that the owner reported as failed
FailedDeliveries ==
    {k \in Events("deliver") :
        last.log[k].ret # O2_SUCCESS /\ last.log[k].m # NullMessage}

\* C16: when deliver() reports failure for an assembled message, the
\* connection is closed by that step if it is a client or an accepted TCP
\* connection, and stays open, with its tag and descriptor, if it is a UDP
\* server; a listener never gets to deliver()
C16_FailedDeliveryCloses ==
    last.op = "dispatch" /\ ~crashed =>
        /\ \A k \in FailedDeliveries :
             IF last.pre.tag \in {NET_TCP_CLIENT, NET_TCP_CONNECTION}
             THEN /\ heap[last.id].net_tag = NET_INFO_CLOSED
                  /\ k + 1 \in Events("close")
                  /\ last.log[k + 1].id = last.id
             ELSE /\ last.pre.tag = NET_UDP_SERVER
                  /\ heap[last.id].net_tag = NET_UDP_SERVER
                  /\ ~heap[last.id].delete_me
                  /\ At(o2n_fds, heap[last.id].fds_index).fd = last.id
                  /\ Events("close") = {}
        /\ last.pre.tag = NET_TCP_SERVER => Events("deliver") = {}

\* the owner of the UDP server failed the delivery of a datagram: the
\* server is still open
C16_Witness ==
    /\ last.op = "dispatch" /\ ~crashed
    /\ last.pre.tag = NET_UDP_SERVER
    /\ FailedDeliveries # {}
    /\ obs[1].dlv = <<Msg(<<8, 9>>)>>
    /\ heap[1].net_tag = NET_UDP_SERVER
    /\ At(o2n_fds, 0).fd = 1

\* the accept calls of the last operation that returned a connection
Accepted == {k \in Events("accept") : last.log[k].conn # INVALID_SOCKET}

\* C17: a read-ready event on a listener makes one accept call; when it
\* returns a connection, one pending connection has left the accept queue,
\* both registry arrays have one new entry, at the end, for a new
\* NET_TCP_CONNECTION object, and the listener's owner is told exactly once
\* by accepted(new); a listener without owner closes the new connection at
\* once instead, and nothing is ever delivered for such a connection
C17_AcceptOne ==
    ~crashed =>
        /\ last.op = "dispatch" /\ last.pre.tag = NET_TCP_SERVER =>
              /\ Cardinality(Events("accept")) <= 1
              /\ \A k \in Accepted :
                   LET e == last.log[k]
                       n == Len(e.info)
                   IN  /\ sock[last.id].backlog = e.pending - 1
                       /\ e.conn = Len(heap)
                       /\ o2n_fds_info = Append(e.info, e.conn)
                       /\ Len(o2n_fds) = n + 1
                       /\ SubSeq(o2n_fds, 1, n) = SubSeq(e.fds, 1, n)
                       /\ heap[e.conn].fds_index = n
                       /\ IF heap[last.id].owner
                          THEN /\ heap[e.conn].net_tag = NET_TCP_CONNECTION
                               /\ o2n_fds[n + 1].fd = e.conn
                               /\ o2n_fds[n + 1].events = {POLLIN}
                               /\ Cardinality(Events("accepted")) = 1
                               /\ last.log[k + 1] =
                                     [e |-> "accepted", id |-> last.id,
                                      conn |-> e.conn]
                               /\ Events("close") = {}
                          ELSE /\ heap[e.conn].net_tag = NET_INFO_CLOSED
                               /\ heap[e.conn].delete_me
                               /\ o2n_fds[n + 1].fd = INVALID_SOCKET
                               /\ Events("accepted") = {}
                               /\ last.log[k + 1] =
                                     [e |-> "close", id |-> e.conn]
              /\ Events("deliver") = {}
        /\ \A id \in 1..Len(obs) :
              obs[id].how = "unowned" => obs[id].dlv = <<>>

\* two connections were pending: one is accepted and handed to the owner,
\* the other is still pending
C17_Witness ==
    /\ ~crashed /\ last.op = "dispatch" /\ last.id = 1
    /\ last.pre.tag = NET_TCP_SERVER
    /\ Accepted = {1}
    /\ last.log[1].pending = 2
    /\ sock[1].backlog = 1
    /\ o2n_fds_info = <<1, 2>>
    /\ heap[2].net_tag = NET_TCP_CONNECTION
    /\ Events("accepted") = {2}

\* the last step of o2n_recv handled POLLIN for its descriptor
ReadReady ==
    /\ POLLIN \in last.pre.revents
    /\ last.pre.revents \cap {POLLERR, POLLHUP, POLLOUT} = {}

\* C18: after a read-ready event on a listener, whether its accept call
\* succeeded or failed, the listener is still NET_TCP_SERVER
C18_ListenerStays ==
    last.op = "dispatch" /\ ~crashed
          /\ last.pre.tag = NET_TCP_SERVER /\ ReadReady =>
        heap[last.id].net_tag = NET_TCP_SERVER

\* the accept call of a read-ready listener failed: no connection was
\* made, and o2n_recv has closed the listener
C18_Witness ==
    /\ last.op = "dispatch" /\ ~crashed /\ last.id = 1
    /\ last.pre.tag = NET_TCP_SERVER /\ ReadReady
    /\ Len(last.log) = 2
    /\ last.log[1].e = "accept" /\ last.log[1].conn = INVALID_SOCKET
    /\ last.log[1].pending = 1
    /\ last.log[2] = [e |-> "close", id |-> 1]
    /\ heap[1].net_tag = NET_INFO_CLOSED
    /\ heap[1].delete_me
    /\ Len(heap) = 1

\* C19 as stated: each UDP utility send (o2n_send_udp, o2n_send_udp_local,
\* o2n_send_broadcast) calls sendto once, with the payload of the message it
\* was given, and frees that message exactly once, whether sendto succeeded
\* or failed
C19_UdpSendFreesOnce ==
    last.op \in {"o2n_send_udp", "o2n_send_udp_local", "o2n_send_broadcast"}
          /\ ~crashed =>
        /\ Cardinality(Events("sendto")) = 1
        /\ \A k \in Events("sendto") :
              last.log[k].bytes = last.pre.msg.payload
        /\ Cardinality(Events("free")) = 1
        /\ \A k \in Events("free") : last.log[k].m = last.pre.msg

\* C19 as amended: each UDP utility send calls sendto once, with the payload
\* of its message, and never again; o2n_send_udp and o2n_send_udp_local then
\* free the message exactly once, whether sendto succeeded or failed, and
\* o2n_send_broadcast never frees it: the message stays with the caller
C19_UdpSendOwnership ==
    last.op \in {"o2n_send_udp", "o2n_send_udp_local", "o2n_send_broadcast"}
          /\ ~crashed =>
        /\ Events("sendto") = {1}
        /\ last.log[1].bytes = last.pre.msg.payload
        /\ IF last.op = "o2n_send_broadcast"
           THEN /\ Len(last.log) = 1
                /\ last.ret = last.log[1].err
           ELSE /\ Len(last.log) = 2
                /\ last.log[2] = [e |-> "free", m |-> last.pre.msg]
                /\ last.op = "o2n_send_udp" =>
                      last.ret = IF last.log[1].err < 0 THEN O2_FAIL
                                 ELSE O2_SUCCESS

\* sendto failed in o2n_send_udp: the call returns O2_FAIL, the message has
\* been freed, nothing was sent
C19_Witness ==
    /\ last.op = "o2n_send_udp" /\ ~crashed
    /\ last.pre.msg = Msg(<<8, 9>>)
    /\ last.ret = O2_FAIL
    /\ last.log[1].e = "sendto" /\ last.log[1].err < 0
    /\ last.log[2] = [e |-> "free", m |-> Msg(<<8, 9>>)]
    /\ sock[o2n_udp_send_sock].tx = <<>>

\* connections that are CLOSED, have an owner, and have not been deleted
ClosedOwned ==
    {id \in Live : heap[id].net_tag = NET_INFO_CLOSED /\ heap[id].owner}

\* C20: the owner of a connection is told remove() only by the sweep, when
\* it deletes the connection, and only for a CLOSED connection; it is told
\* at most once, exactly once when the connection deleted has an owner, and
\* when o2n_free_deleted_sockets returns no CLOSED connection with an owner
\* is left waiting for its remove()
C20_RemoveOnceInSweep ==
    ~crashed =>
        /\ \A k \in Events("remove") :
              /\ last.op = "delete"
              /\ last.log[k].id = last.id
              /\ last.log[k].tag = NET_INFO_CLOSED
        /\ \A id \in 1..Len(obs) : obs[id].removed <= 1
        /\ last.op = "delete" =>
              /\ Cardinality(Events("remove")) = IF last.pre.owner THEN 1 ELSE 0
              /\ obs[last.id].removed = IF last.pre.owner THEN 1 ELSE 0
        /\ last.op = "swept" => ClosedOwned = {}

\* a connection with an owner was closed, then a failed create_tcp_client
\* took its entry out of the registry: the sweep has returned and the
\* connection is still there, its owner never told
C20_Witness ==
    /\ ~crashed /\ last.op = "swept"
    /\ ClosedOwned = {1}
    /\ heap[1].delete_me
    /\ obs[1].removed = 0
    /\ o2n_fds_info = <<>>
    /\ ~o2n_socket_delete_flag

\* the datagram reads of the last operation
DatagramReads == {k \in Events("read") : last.pre.tag = NET_UDP_SERVER}

\* C21: a read-ready event on a UDP server with an owner makes exactly one
\* deliver() call, of the whole datagram at the head of the socket's queue,
\* with length equal to the datagram's size, whatever that size, zero
\* included; the server stays open; and the length-prefix assembly fields of
\* a UDP server are never used: they are zero in every state
C21_UdpOneDatagram ==
    ~crashed =>
        /\ last.op = "dispatch" /\ last.pre.tag = NET_UDP_SERVER /\ ReadReady
              /\ heap[last.id].owner =>
              \A k \in DatagramReads :
                 last.log[k].errno = "0" =>
                    /\ Cardinality(Events("deliver")) = 1
                    /\ \A j \in Events("deliver") :
                         /\ last.log[j].id = last.id
                         /\ last.log[j].m = Msg(Head(last.log[k].queued))
                    /\ heap[last.id].net_tag = NET_UDP_SERVER
        /\ \A id \in Live :
              heap[id].net_tag = NET_UDP_SERVER =>
                 /\ heap[id].in_length = 0
                 /\ heap[id].in_length_got = 0
                 /\ heap[id].in_msg_got = 0

\* a datagram of zero bytes arrived: recvfrom returns 0, nothing is
\* delivered, and o2n_recv has closed the UDP server
C21_Witness ==
    /\ ~crashed /\ last.op = "dispatch" /\ last.id = 1
    /\ last.pre.tag = NET_UDP_SERVER /\ ReadReady
    /\ heap[1].owner
    /\ Len(last.log) = 3
    /\ last.log[1].e = "read" /\ last.log[1].n = 0
    /\ last.log[1].errno = "0"
    /\ last.log[1].queued = <<<<>>>>
    /\ last.log[2].e = "free"
    /\ last.log[3] = [e |-> "close", id |-> 1]
    /\ Events("deliver") = {}
    /\ heap[1].net_tag = NET_INFO_CLOSED

\* the payload of the one message of the raw runs, and what was written of it
RawSent == obs[1].enq[1]

\* C22 as stated: a raw send writes the bare payload, with no length prefix,
\* and never more than RawMax (512) payload bytes for one message
C22_RawSendCapped ==
    obs[1].enq # <<>> /\ ~crashed =>
        /\ IsPrefix(sock[1].tx, RawSent)
        /\ Len(sock[1].tx) <= RawMax

\* C22 as amended: a raw send writes the bare payload, with no length
\* prefix, and all of it, however long: what is written is a prefix of the
\* payload, the saved offset is its length while the message is queued, and
\* when the queue is empty the whole payload has been written, also when it
\* has more than RawMax bytes
C22_RawSendWhole ==
    obs[1].enq # <<>> /\ ~crashed =>
        /\ IsPrefix(sock[1].tx, RawSent)
        /\ Len(sock[1].tx) = Min(Len(RawSent), sock[1].seg * (obs[1].wev + 1))
        /\ IF heap[1].out_message = <<>>
           THEN sock[1].tx = RawSent /\ heap[1].out_msg_sent = 0
           ELSE /\ heap[1].out_message = <<Msg(RawSent)>>
                /\ heap[1].out_msg_sent = Len(sock[1].tx)
                /\ Len(sock[1].tx) < Len(RawSent)

\* a raw message of RawMax + 1 bytes has been written in full, byte for byte
C22_Witness ==
    /\ ~crashed
    /\ obs[1].enq = <<RawPayload(RawMax + 1)>>
    /\ sock[1].tx = RawPayload(RawMax + 1)
    /\ heap[1].raw_flag
    /\ heap[1].out_message = <<>>

\* C23: a call of o2n_recv never waits: from poll to its return, its next
\* step (a turn of a sweep, the zero-timeout poll, the handler of the next
\* descriptor, the end of the loop) can always be taken at once, whatever
\* the peers have or have not sent; and the loop handles each index below
\* the length taken at poll once, in order
C23_TickNeverWaits ==
    ~crashed =>
        /\ pc # "idle" => ENABLED TickSteps
        /\ pc = "dispatch" => tick_i <= tick_len

\* on a platform whose accept() returns blocking sockets: the header of a
\* one-byte message has arrived on the accepted connection 2 without its
\* body, poll has reported POLLIN, and the handler's read of the body waits
C23_Witness ==
    /\ ~crashed /\ pc = "recvfrom" /\ tick_i = 0 /\ tick_len = 1
    /\ last.op = "dispatch" /\ last.id = 2
    /\ heap[2].net_tag = NET_TCP_CONNECTION
    /\ heap[2].in_length_got = LengthBytes
    /\ heap[2].in_length = 1
    /\ heap[2].in_msg_got = 0
    /\ sock[2].rx = <<>> /\ ~sock[2].eof
    /\ ~ENABLED TickSteps

\* the messages o2_message_send has been handed, in the order of the calls
SentIds == [k \in 1..Len(o2_sent) |-> o2_sent[k].msg]

\* C24: the messages one shared memory thread sends with o2sm_message_send
\* are handed to o2_message_send by bridge_poll in the order they were sent,
\* each exactly once, however the pushes interleave with the grab; none is
\* handed on before it is sent, and once bridge_poll has returned with the
\* list empty and no send under way, every message sent has been handed on
C24_SharedMemFifo ==
    /\ SentIds = [k \in 1..Len(o2_sent) |-> k]
    /\ Len(o2_sent) <= Len(sm_msgs)
    /\ bridge.pc = "idle" /\ o2sm_incoming = 0 /\ sm_thread.pc = "idle" =>
          Len(o2_sent) = Len(sm_msgs)

\* three messages were sent while bridge_poll ran; all have been handed on
\* in the order sent, and the loop of the last bridge_poll has just ended
C24_Witness ==
    /\ SentIds = <<1, 2, 3>>
    /\ Len(sm_msgs) = MaxMsgs
    /\ bridge.pc = "loop" /\ bridge.msgs = 0
    /\ sm_thread.pc = "idle"
    /\ o2sm_incoming = 0

\* C25: in every reachable state the two registry arrays have the same
\* length and, at every index, the pollfd is the one made for the object
\* whose pointer is at that index, that object is alive and its fds_index is
\* that index; construction, failed-connect cleanup and the sweep keep it
C25_RegistryParallel ==
    ~crashed =>
        /\ Len(o2n_fds) = Len(o2n_fds_info)
        /\ \A k \in 1..Len(o2n_fds_info) :
             /\ o2n_fds[k].own = o2n_fds_info[k]
             /\ ~heap[o2n_fds_info[k]].freed
             /\ heap[o2n_fds_info[k]].fds_index = k - 1

\* the sweep deleted the object at index 0 of two: the other object and its
\* pollfd are now at index 0, and the object's fds_index says so
C25_Witness ==
    /\ ~crashed /\ last.op = "delete"
    /\ Len(last.pre.info) = 2
    /\ last.pre.info[1] = last.id
    /\ Len(o2n_fds) = 1 /\ Len(o2n_fds_info) = 1
    /\ o2n_fds_info[1] = last.pre.info[2]
    /\ o2n_fds[1].own = last.pre.info[2]
    /\ o2n_fds[1].fd = last.pre.info[2]
    /\ heap[o2n_fds_info[1]].fds_index = 0
    /\ ~heap[o2n_fds_info[1]].freed

\* C26: whenever an Fds_info is destroyed, its net_tag is NET_INFO_CLOSED and
\* its fds_index is within the registry (the two assertions of the
\* destructor hold), and the destruction is a step of the sweep
\* o2n_free_deleted_sockets, never a part of a close, send, receive or
\* connect operation
C26_DestroyedClosedBySweep ==
    \A k \in Events("delete") :
        /\ last.op = "delete"
        /\ last.log[k].tag = NET_INFO_CLOSED
        /\ last.log[k].inrange

\* create_tcp_client, its connect refused, has destroyed its object itself,
\* the object's tag still NET_TCP_CONNECTING and its index past the end
C26_Witness ==
    /\ last.op = "create_tcp_client" /\ last.ret = "NULL"
    /\ \E k \in Events("delete") :
         /\ last.log[k].tag = NET_TCP_CONNECTING
         /\ ~last.log[k].inrange
         /\ heap[last.log[k].id].freed

\* the registry before the part of the last operation that can close: before
\* the call of close_socket, before the turn of the dispatch loop, or, in
\* a sweep step, after the destructor's compaction (its remove() hook, which
\* may close another connection, runs last)
BeforeClose ==
    IF last.op = "delete" THEN [fds |-> Removal.fds, info |-> Removal.info]
    ELSE [fds |-> last.pre.fds, info |-> last.pre.info]

\* C27: close_socket sets the object's delete_me and o2n_socket_delete_flag
\* and leaves the registry as it is: after an operation that closed a
\* connection, directly, in a turn of the dispatch loop or in a remove()
\* hook of the sweep, o2n_fds_info holds the same objects at the same
\* indices and o2n_fds has the same length, but for the entries the
\* operation's successful accepts appended at the end
C27_CloseKeepsRegistry ==
    ~crashed /\ last.op \in {"close_socket", "dispatch", "delete"}
             /\ Events("close") # {} =>
        /\ \A k \in Events("close") : heap[last.log[k].id].delete_me
        /\ o2n_socket_delete_flag
        /\ Len(o2n_fds) = Len(o2n_fds_info)
        /\ Len(o2n_fds_info) =
              Len(BeforeClose.info) + Cardinality(Accepted)
        /\ SubSeq(o2n_fds_info, 1, Len(BeforeClose.info)) = BeforeClose.info
        /\ \A k \in 1..Len(BeforeClose.fds) :
              o2n_fds[k].own = BeforeClose.fds[k].own

\* a turn of the dispatch loop, not the last of its tick, has closed the
\* connection at its index; the registry still holds both connections
C27_Witness ==
    /\ ~crashed /\ last.op = "dispatch" /\ pc = "dispatch"
    /\ tick_i < tick_len
    /\ \E k \in Events("close") : last.log[k].id = last.id
    /\ Len(o2n_fds_info) = 2
    /\ o2n_fds_info = last.pre.info
    /\ heap[last.id].delete_me /\ o2n_socket_delete_flag
    /\ o2n_fds[tick_i].fd = INVALID_SOCKET

\* the order in which the loop body looks at the flags
FlagOrder == <<POLLERR, POLLHUP, POLLOUT, POLLIN>>

\* the flags of the last turn's revents, in that order
Reported ==
    LET in(f) == f \in last.pre.revents
    IN  SelectSeq(FlagOrder, in)

\* C28: in a turn of the dispatch loop every flag poll reported for the
\* descriptor is handled, in the order POLLERR, POLLHUP, POLLOUT, POLLIN; so
\* with POLLOUT and POLLIN both reported the write handling and then the
\* read handling are done
C28_AllFlagsInOrder ==
    last.op = "dispatch" /\ ~crashed => last.pre.branch = Reported

\* C28 as the code has it: in a turn of the dispatch loop one flag is
\* handled, the first the descriptor reports in the order POLLERR, POLLHUP,
\* POLLOUT, POLLIN; with POLLOUT and POLLIN both reported the write handling
\* alone is done in this turn
C28_FirstFlagInOrder ==
    last.op = "dispatch" /\ ~crashed =>
        last.pre.branch = IF Reported = <<>> THEN <<>> ELSE <<Head(Reported)>>

\* poll reported POLLOUT and POLLIN for a descriptor and the turn for it
\* took the POLLOUT branch and no other
C28_Witness ==
    /\ last.op = "dispatch" /\ ~crashed
    /\ last.pre.revents = {POLLOUT, POLLIN}
    /\ last.pre.branch = <<POLLOUT>>

\* C29: a connection registered during a call of o2n_recv is not dispatched
\* in that call: a turn of the loop is for an object that was registered
\* when poll was called, and while the loop runs the objects at the indices
\* below the length taken after poll are those and no others
C29_NewNotDispatched ==
    ~crashed =>
        /\ last.op = "dispatch" => obs[last.id].in_tick
        /\ pc \in {"dispatch", "recvfrom"} =>
             /\ tick_len <= Len(o2n_fds_info)
             /\ \A k \in 1..Len(o2n_fds_info) :
                  obs[o2n_fds_info[k]].in_tick <=> k <= tick_len

\* the loop is over with a connection accepted in one of its turns at an
\* index it did not visit
C29_Witness ==
    /\ ~crashed /\ pc = "dispatch" /\ tick_i = tick_len
    /\ last.op = "dispatch" /\ Accepted # {}
    /\ Len(o2n_fds_info) = tick_len + 1
    /\ ~obs[o2n_fds_info[tick_len + 1]].in_tick
    /\ heap[o2n_fds_info[tick_len + 1]].net_tag = NET_TCP_CONNECTION

\* the last turn of the loop ran the POLLIN branch for a connection
ConnectionRead ==
    /\ last.op = "dispatch" /\ last.pre.branch = <<POLLIN>>
    /\ last.pre.tag \in {NET_TCP_CONNECTION, NET_TCP_CLIENT}

\* C30: a read event is handled alike for NET_TCP_CONNECTION and
\* NET_TCP_CLIENT, framed or raw: no assertion of the handler fails for
\* either, and in raw mode a read that returns n >= 0 bytes has n <= 512 and
\* a message of just these n bytes is delivered next
C30_AcceptedReadsAsClient ==
    ConnectionRead =>
        /\ ~crashed
        /\ heap[last.id].raw_flag =>
             \A k \in Events("read") :
                 /\ last.log[k].n <= RawMax
                 /\ last.log[k].n >= 0 =>
                      /\ k + 1 \in Events("deliver")
                      /\ last.log[k + 1].id = last.id
                      /\ last.log[k + 1].m.length = last.log[k].n
                      /\ Len(last.log[k + 1].m.payload) = last.log[k].n

\* poll reported POLLIN for a raw accepted connection with bytes to read, and
\* the assertion at the top of the raw branch has failed
C30_Witness ==
    /\ ConnectionRead /\ crashed
    /\ last.pre.tag = NET_TCP_CONNECTION
    /\ heap[last.id].net_tag = NET_TCP_CONNECTION
    /\ heap[last.id].raw_flag
    /\ sock[last.id].rx # <<>>
    /\ Events("read") = {}

\* the object a write of the last operation left behind: as the next write
\* of the operation found it, or as it is now
AfterWriteAt(k) ==
    LET later == {j \in Events("write") : j > k}
    IN  IF later = {} THEN heap[last.log[k].id]
        ELSE last.log[CHOOSE j \in later : \A i \in later : j <= i].h

\* C31: between operations, a NET_TCP_CLIENT or NET_TCP_CONNECTION with an
\* empty out_message list has out_msg_sent = 0, and one with a message at the
\* head has 0 <= out_msg_sent < the bytes the head message takes on the
\* wire; every ::send that accepted err bytes of the n left moved out_msg_sent
\* on by err, or set it to 0 when the message was complete
C31_OutMsgSentValid ==
    ~crashed =>
        /\ \A id \in Live :
             heap[id].net_tag \in {NET_TCP_CLIENT, NET_TCP_CONNECTION} =>
                IF heap[id].out_message = <<>> THEN heap[id].out_msg_sent = 0
                ELSE /\ 0 <= heap[id].out_msg_sent
                     /\ heap[id].out_msg_sent <
                          Len(WireBytes(Head(heap[id].out_message),
                                        heap[id].raw_flag))
        /\ \A k \in Events("write") :
             last.log[k].err >= 0 =>
                AfterWriteAt(k).out_msg_sent =
                   IF last.log[k].err >= last.log[k].n THEN 0
                   ELSE last.log[k].h.out_msg_sent + last.log[k].err

\* a second partial write of a message: the offset was above 0, the write
\* took some but not all of what was left, and the offset has moved by that
\* much
C31_Witness ==
    /\ ~crashed
    /\ \E k \in Events("write") :
         LET e == last.log[k]
         IN  /\ e.h.out_msg_sent > 0
             /\ 0 < e.err /\ e.err < e.n
             /\ \A j \in Events("write") : j <= k
             /\ heap[e.id].net_tag = NET_TCP_CLIENT
             /\ heap[e.id].out_message # <<>>
             /\ heap[e.id].out_msg_sent = e.h.out_msg_sent + e.err

\* C32: when o2n_recv calls poll no object of the registry is
\* NET_INFO_CLOSED or marked for deletion and no pollfd of it holds
\* INVALID_SOCKET: what was closed before the call has been deleted by the
\* sweep that runs first
C32_PollSeesNoClosed ==
    pc = "poll" /\ ~crashed =>
        \A k \in 1..Len(o2n_fds_info) :
            /\ heap[o2n_fds_info[k]].net_tag # NET_INFO_CLOSED
            /\ ~heap[o2n_fds_info[k]].delete_me
            /\ o2n_fds[k].fd # INVALID_SOCKET

\* o2n_recv is about to call poll after a sweep that found nothing to delete:
\* connection 1, which a failed create_tcp_client took out of the registry,
\* was closed between two calls, is NET_INFO_CLOSED and marked, and is in no
\* registry entry for the sweep to find; its close wrote INVALID_SOCKET into
\* the pollfd at its index, which is the pollfd of the open server 3
C32_Witness ==
    /\ pc = "poll" /\ ~crashed /\ last.op = "swept"
    /\ ~o2n_socket_delete_flag
    /\ o2n_fds_info = <<3>>
    /\ o2n_fds[1].fd = INVALID_SOCKET
    /\ heap[3].net_tag \in {NET_TCP_SERVER, NET_UDP_SERVER}
    /\ ~heap[1].freed
    /\ heap[1].net_tag = NET_INFO_CLOSED /\ heap[1].delete_me
    /\ heap[1].fds_index = 0

\* what o2_message_send returned for the messages of the last bridge_poll, in
\* the order of the calls (bridge.calls counts the calls made before it)
BatchErrs ==
    [k \in 1..(Len(o2_sent) - bridge.calls) |-> o2_sent[bridge.calls + k].err]

\* those of them that are not O2_SUCCESS
BatchFailures ==
    LET failed(e) == e # O2_SUCCESS
    IN  SelectSeq(BatchErrs, failed)

\* C33: bridge_poll returns the first error o2_message_send returned for a
\* message of the batch, and O2_SUCCESS only if every send succeeded; every
\* message of the batch is handed to o2_message_send, errors or not
C33_FirstErrorReturned ==
    /\ bridge.pc = "idle" =>
          bridge.ret = IF BatchFailures = <<>> THEN O2_SUCCESS
                       ELSE Head(BatchFailures)
    /\ bridge.pc = "idle" /\ o2sm_incoming = 0 /\ sm_thread.pc = "idle" =>
          Len(o2_sent) = Len(sm_msgs)

\* bridge_poll has returned O2_SUCCESS from a batch of two whose first send
\* failed; the second was sent all the same
C33_Witness ==
    /\ bridge.pc = "idle" /\ bridge.ret = O2_SUCCESS
    /\ BatchErrs = <<O2_FAIL, O2_SUCCESS>>

\* the messages of the outgoing queue handed to o2sm_dispatch or O2_FREE
HandedOn(m) == {k \in 1..Len(o2sm_dispatched) : o2sm_dispatched[k].msg = m}

\* the messages poll_outgoing has grabbed: all those not on the queue
Grabbed == (1..Len(out_mem)) \ SmList(out_mem, outgoing)

\* C34: once poll_outgoing has sorted what it grabbed, no message is on the
\* schedule and on the immediate list at once and every grabbed message not
\* yet dispatched or freed is on one of them; no message is ever dispatched
\* or freed twice, or read after it was freed
C34_OneListOnce ==
    /\ sm_poll.pc \in {"schedule", "immediate", "idle"} =>
         LET sched == SmList(out_mem, schedule_head)
             imm == SmList(out_mem, sm_poll.msgs)
         IN  /\ sched \cap imm = {}
             /\ \A m \in Grabbed : HandedOn(m) = {} => m \in sched \cup imm
             /\ \A m \in sched : out_mem[m].timestamp # 0
             /\ \A m \in imm : out_mem[m].timestamp = 0
    /\ \A m \in 1..Len(out_mem) : Cardinality(HandedOn(m)) <= 1
    /\ sm_poll.pc # "fault"

\* a batch of a timestamped message and then one without, grabbed with the
\* schedule empty: the second has been dispatched from the schedule and
\* again from the immediate list
C34_Witness ==
    /\ Len(out_mem) >= 2
    /\ out_mem[1].timestamp # 0 /\ out_mem[2].timestamp = 0
    /\ \E j, k \in HandedOn(2) :
         /\ j < k
         /\ o2sm_dispatched[j].list = "schedule"
         /\ o2sm_dispatched[k].list = "immediate"
         /\ o2sm_dispatched[k].stale

\* C35: no turn of the dispatch loop runs the POLLOUT or the POLLIN branch
\* for an object that is NET_INFO_CLOSED, also when a callback of an earlier
\* turn of the same loop closed it after poll had reported it ready; so the
\* last branch of read_event_handler, assert(false), is not reached
C35_NoHandlerOnClosed ==
    last.op = "dispatch" /\ last.pre.tag = NET_INFO_CLOSED =>
        \A k \in 1..Len(last.pre.branch) :
            last.pre.branch[k] \notin {POLLOUT, POLLIN}

\* the second turn of a loop ran the POLLIN branch for a connection that
\* the owner's deliver() of the first turn had closed, and assert(false)
\* has failed
C35_Witness ==
    /\ last.op = "dispatch" /\ crashed
    /\ last.pre.tag = NET_INFO_CLOSED
    /\ last.pre.branch = <<POLLIN>>
    /\ last.pre.revents = {POLLIN}
    /\ tick_i = 2 /\ tick_len = 2
    /\ obs[last.id].in_tick
    /\ heap[last.id].delete_me
    /\ Events("read") = {}

\* connections whose connect was in progress when they were made and that are
\* NET_TCP_CLIENT without connected() having been called: the tick's POLLOUT
\* handling (lines 968-977) sets the tag and calls connected() together, so
\* these were moved by the wait inside send(block = true) (lines 735-766)
MovedBySendWait ==
    {id \in Live : /\ obs[id].how = "EINPROGRESS"
                   /\ heap[id].owner
                   /\ heap[id].net_tag = NET_TCP_CLIENT
                   /\ obs[id].connected = 0}

\* C36: no connection has connected() called more than once, and when
\* o2n_recv returns, every owned connection that was moved from
\* NET_TCP_CONNECTING to NET_TCP_CLIENT, by the wait inside send(block = true)
\* included, has had connected() called exactly once
C36_SendWaitReported ==
    /\ \A id \in 1..Len(obs) : obs[id].connected <= 1
    /\ last.op = "loop_end" /\ pc = "idle" /\ ~crashed => MovedBySendWait = {}

\* o2n_recv has returned after a blocking send completed the connection: the
\* descriptor reported writable and was dispatched, the connection is
\* NET_TCP_CLIENT, and connected() was not called
C36_Witness ==
    /\ last.op = "loop_end" /\ pc = "idle" /\ ~crashed
    /\ \E id \in MovedBySendWait : POLLOUT \notin Interest(id)

\* connections that can send and have messages queued
Backlogged ==
    {id \in Live :
        /\ heap[id].net_tag \in {NET_TCP_CONNECTING, NET_TCP_CLIENT,
                                 NET_TCP_CONNECTION}
        /\ heap[id].out_message # <<>>
        /\ bounds_check(o2n_fds, heap[id].fds_index)}

\* C37: between operations (after enqueue, send_tcp, send or o2n_recv has
\* returned), every connection in state NET_TCP_CONNECTING, NET_TCP_CLIENT or
\* NET_TCP_CONNECTION that has a non-empty outbound queue has POLLOUT among the
\* events asked of poll for its descriptor
C37_BacklogHasPollout ==
    pc = "idle" /\ ~crashed => \A id \in Backlogged : POLLOUT \in Interest(id)

\* enqueue has returned on the connecting client 1, which a failed
\* create_tcp_client took out of the registry: the message is queued, and the
\* pollfd at the client's index, which is server 3's, has no POLLOUT
C37_Witness ==
    /\ pc = "idle" /\ ~crashed
    /\ last.op = "enqueue" /\ last.id = 1
    /\ 1 \in Backlogged
    /\ heap[1].net_tag = NET_TCP_CONNECTING
    /\ o2n_fds_info = <<3>>
    /\ o2n_fds[1].fd = 3
    /\ POLLOUT \notin Interest(1)

\* the last step was the loop body of o2n_recv for a stream connection whose
\* descriptor reported POLLHUP together with POLLIN (and no POLLERR) while
\* bytes the local socket had received were still unread
HupWithBuffered ==
    /\ last.op = "dispatch" /\ ~crashed
    /\ {POLLHUP, POLLIN} \subseteq last.pre.revents
    /\ POLLERR \notin last.pre.revents
    /\ last.pre.tag \in {NET_TCP_CLIENT, NET_TCP_CONNECTION}
    /\ last.pre.rx # <<>>

\* C38: when a descriptor reports read-ready together with hang-up, the
\* buffered inbound data is not discarded: it is read before the connection
\* is closed
C38_HupKeepsBuffered ==
    HupWithBuffered =>
        \E k \in Events("read") : \A c \in Events("close") : k < c

\* a whole framed message was in the socket's buffer when POLLHUP and POLLIN
\* were reported: the POLLHUP branch alone ran, the connection was closed
\* with nothing read or delivered
C38_Witness ==
    /\ HupWithBuffered
    /\ last.pre.branch = <<POLLHUP>>
    /\ Len(last.pre.rx) >= LengthBytes
    /\ Len(last.pre.rx) >= LengthBytes + last.pre.rx[LengthBytes]
    /\ Events("close") # {}
    /\ Events("read") = {} /\ Events("deliver") = {}
    /\ heap[last.id].net_tag = NET_INFO_CLOSED
    /\ Len(obs[last.id].dlv) = 0

\* the reads of the last step, made for a UDP server, that gave no datagram:
\* recvfrom failed, would have blocked, or returned a datagram of zero bytes
DatagramProblems ==
    {k \in Events("read") : last.pre.tag = NET_UDP_SERVER /\ last.log[k].n <= 0}

\* C40: a UDP server stays NET_UDP_SERVER across receive problems: after a
\* failed or would-block receive or a zero-length datagram the buffer is
\* freed, and the connection is neither closed nor marked for deletion
C40_UdpServerStays ==
    last.op = "dispatch" /\ ~crashed /\ DatagramProblems # {} =>
        /\ heap[last.id].net_tag = NET_UDP_SERVER
        /\ ~heap[last.id].delete_me
        /\ heap[last.id].in_message = <<>>
        /\ Events("close") = {}

\* recvfrom on a UDP server failed with EINTR while a datagram of one byte or
\* more was waiting: the buffer was freed, and o2n_recv closed the server and
\* marked it for deletion
C40_Witness ==
    /\ last.op = "dispatch" /\ ~crashed
    /\ \E k \in DatagramProblems :
          /\ last.log[k].n < 0 /\ last.log[k].errno = EINTR
          /\ last.log[k].queued # <<>> /\ Head(last.log[k].queued) # <<>>
    /\ Events("free") # {} /\ Events("close") # {}
    /\ Events("deliver") = {}
    /\ heap[last.id].net_tag = NET_INFO_CLOSED
    /\ heap[last.id].delete_me
    /\ heap[last.id].in_message = <<>>

\* the client connection 1 is registered and still NET_TCP_CONNECTING, and its
\* connect attempt was refused: poll reports POLLERR for it on every tick
RefusedConnecting ==
    /\ ~heap[1].freed
    /\ heap[1].net_tag = NET_TCP_CONNECTING
    /\ bounds_check(o2n_fds, heap[1].fds_index)
    /\ At(o2n_fds, heap[1].fds_index).fd = 1
    /\ sock[1].cstate = "refused"

\* C39: a connection whose descriptor reports POLLERR on every tick (a
\* NET_TCP_CONNECTING connection whose connect was refused) is eventually
\* closed and removed from the registry, o2n_recv being called again and
\* again
C39_ErrorLeadsToClosed ==
    RefusedConnecting ~> (heap[1].freed \/ heap[1].net_tag = NET_INFO_CLOSED)

\* the loop body of o2n_recv has run for the refused connection: POLLERR was
\* reported, the empty POLLERR branch was taken, nothing was done, and the
\* connection is registered and NET_TCP_CONNECTING as before
C39_Witness ==
    /\ last.op = "dispatch" /\ last.id = 1 /\ ~crashed
    /\ POLLERR \in last.pre.revents
    /\ last.pre.branch = <<POLLERR>>
    /\ last.log = <<>>
    /\ RefusedConnecting
    /\ ~heap[1].delete_me
    /\ ~o2n_socket_delete_flag
    /\ o2n_fds_info = <<1>>

====
